---- MODULE Spec2Model ----
(***************************************************************************)
(* Model of the request orchestrator of packages/http-service              *)
(* (HttpService.request and the functions it calls): request interceptors, *)
(* cache lookup, in-flight deduplication, transport dispatch with          *)
(* auth-refresh retry and exponential backoff retry, response              *)
(* interceptors and the pending-table cleanup; and of the HttpCache it     *)
(* uses (entries with a TTL, LRU eviction), also as called directly by key.*)
(*                                                                         *)
(* One logical call c of request() is a cooperative task; every `await`    *)
(* of the source that lets another task run is a step boundary here.       *)
(***************************************************************************)
EXTENDS Integers, Sequences, FiniteSets, TLC

VARIABLES
  config,               \* HttpService.config (the fields the orchestrator reads)
  authConfig,           \* HttpService.authConfig: is refreshToken configured
  responseInterceptors, \* HttpService.responseInterceptors (sequence of kinds)
  errorInterceptors,    \* HttpService.errorInterceptors (sequence of kinds)
  transport,            \* the results the transport (fetch) may produce
  cache,                \* HttpService.cache: the HttpCache object
  now,                  \* Date.now()
  pendingRequests,      \* HttpService.pendingRequests: dedup key -> promise
  rc,                   \* per call: the RequestConfig passed to request()
  pc,                   \* per call: position inside request()
  promise,              \* per call: the promise returned by makeRequest()
  mr,                   \* per call: position inside makeRequest()
  joinedTo,             \* per call: the promise the call returned from dedup
  outcome,              \* per call: what request() settled with
  log,                  \* per call: history of fetch/refresh/sleep/chain events
  lateStart,            \* per call: had another call settled when it started
  doneAtLookup,         \* per call: the calls settled when it left "building"
  cleared,              \* clearCache() / clear() has been called
  ret,                  \* HttpCache: the last operation and what it returned
  lastSet,              \* HttpCache: per key, the arguments of the last set
  recency,              \* HttpCache: the stored keys, least recently used first
  queueOptions,         \* RequestQueue: the argument of the constructor
  queueConfig,          \* RequestQueue.config
  queue,                \* RequestQueue.queue: the waiting QueuedRequests
  activeRequests,       \* RequestQueue.activeRequests
  timeSinceLastRequest, \* Date.now() - RequestQueue.lastRequestTime
  timers,               \* pending setTimeout(processQueue): remaining delays
  immediates,           \* pending setImmediate(processQueue) callbacks
  requests,             \* per request: the promise returned by enqueue()
  lastAttempt,          \* RequestQueue: what the last enqueue/processQueue did
  sinceDispatch,        \* RequestQueue: time since the executor was last invoked
  arrivals,             \* RequestQueue: the waiting requests, first enqueued first
  instances,            \* create(): per instance, the references in its fields
  heap,                 \* create(): the objects the references point to
  unsubscribes,         \* create(): the closures add...Interceptor returned
  observed,             \* create(): the last operation on an instance
  keyConfigs,           \* generateKey: the two configurations it is given
  generated,            \* generateKey: the two keys it returned
  chainList,            \* chain run: this.<chain>, the registered interceptors
  chainRegistered,      \* chain run: registrations made so far
  chainRun,             \* chain run: the state of apply...Interceptors
  chainLog,             \* chain run: the calls and resumptions, in order
  chainHandles,         \* chain run: the function each returned handle holds
  chainInvoked,         \* chain run: the handle the last step invoked, or 0
  chainStart,           \* chain run: this.<chain> when the run began
  execInput,            \* executeRequest: the timeouts and the caller's signal
  execution,            \* executeRequest: where it is, its timer and flags
  dispatches,           \* executeRequest: calls made so far
  refreshes,            \* refreshAuthToken: per call, how each run of it went
  abortedSignals,       \* the calls whose config.signal the caller has aborted
  executorQueue,        \* a RequestQueue with the executor of every call
  pool,                 \* a ConnectionPool and the RequestQueues it created
  throttler             \* a Throttler and the invocations of its wrapper

vars == <<config, authConfig, responseInterceptors, errorInterceptors,
          transport, cache, pendingRequests, rc, pc, promise, mr, joinedTo,
          outcome, log, lateStart, doneAtLookup, now, cleared, ret, lastSet,
          recency, queueOptions, queueConfig, queue, activeRequests,
          timeSinceLastRequest, timers, immediates, requests, lastAttempt,
          sinceDispatch, arrivals, instances, heap, unsubscribes, observed,
          keyConfigs, generated, chainList, chainRegistered, chainRun,
          chainLog, chainHandles, chainInvoked, chainStart, execInput,
          execution, dispatches, refreshes,
          abortedSignals, executorQueue, pool, throttler>>

\* the history of the HttpCache operations called directly
cacheHistory == <<ret, lastSet, recency>>

\* the RequestQueue (throttle layer)
throttle == <<queueOptions, queueConfig, queue, activeRequests,
              timeSinceLastRequest, timers, immediates, requests,
              lastAttempt, sinceDispatch, arrivals>>

\* the instances of create()
derivation == <<instances, heap, unsubscribes, observed>>

\* the HttpService instance that is called, and its cache
orchestrator ==
  <<config, authConfig, responseInterceptors, errorInterceptors, transport,
    cache, pendingRequests, rc, pc, promise, mr, joinedTo, outcome, log,
    lateStart, doneAtLookup, now, cleared, cacheHistory>>

\* HttpCache.generateKey
keying == <<keyConfigs, generated>>

\* one run of an interceptor chain
chaining == <<chainList, chainRegistered, chainRun, chainLog, chainHandles,
              chainInvoked, chainStart>>

\* executeRequest followed step by step
dispatching == <<execInput, execution, dispatches>>

\* what the callers of the instance see and do from outside: the observers
\* of refreshAuthToken, the signals they passed
observing == <<refreshes, abortedSignals>>

\* the helpers of the throttle layer followed on their own
utilities == <<executorQueue, pool, throttler>>

\* the components that are not part of that instance
elsewhere ==
  <<throttle, derivation, keying, chaining, dispatching, observing,
    utilities>>

(***************************************************************************)
(* Bounds                                                                  *)
(***************************************************************************)
NumCalls == 2        \* concurrent request() calls in Spec
MaxEvents == 24      \* cap on the per-call history (never binds for the code)

Calls == 1..NumCalls
NoCall == 0
Undefined == -1      \* an optional numeric field that is not given
NoData == "undefined"

(***************************************************************************)
(* Program constants                                                       *)
(***************************************************************************)
DefaultTimeout == 30000
DefaultRetries == 3
DefaultRetryDelay == 1000
DefaultCacheTimeout == 300000
MaxBackoff == 30000
DefaultTTL == 300000      \* HttpCache.defaultTTL
DefaultMaxSize == 100     \* HttpCache.maxSize
InitialNow == 1           \* Date.now() when the instance is constructed

Min(a, b) == IF a < b THEN a ELSE b

(***************************************************************************)
(* utils.ts                                                                *)
(***************************************************************************)
calculateBackoff(attempt, baseDelay) == Min(baseDelay * 2 ^ attempt, MaxBackoff)

(***************************************************************************)
(* errors.ts: an error value.  cls is the JavaScript class the value is an *)
(* instance of as far as the instanceof tests of the source can tell;      *)
(* status 0 stands for an undefined status.                                *)
(***************************************************************************)
Err(cls, name, message, status, net, tmo, abt) ==
  [cls |-> cls, name |-> name, message |-> message, status |-> status,
   isNetworkError |-> net, isTimeoutError |-> tmo, isAbortError |-> abt]

\* message `HTTP ${status}: ${statusText}` and plain messages
HttpMessage(status, statusText) == [http |-> status, text |-> statusText]
Message(text) == [http |-> 0, text |-> text]

HttpServiceError(message, status) ==
  Err("HttpServiceError", "HttpServiceError", message, status, FALSE, FALSE, FALSE)
NetworkError(message) ==
  Err("HttpServiceError", "NetworkError", message, 0, TRUE, FALSE, FALSE)
AbortError(message) ==
  Err("HttpServiceError", "AbortError", message, 0, FALSE, FALSE, TRUE)
NamedHttpError(name, message, status) ==
  Err("HttpServiceError", name, message, status, FALSE, FALSE, FALSE)

createHttpError(status, statusText) ==
  LET message == HttpMessage(status, statusText) IN
  CASE status = 400 -> NamedHttpError("ValidationError", message, status)
    [] status = 401 -> NamedHttpError("AuthenticationError", message, status)
    [] status = 403 -> NamedHttpError("AuthorizationError", message, status)
    [] status >= 400 /\ status < 500 /\ status \notin {400, 401, 403}
         -> HttpServiceError(message, status)
    [] status >= 500 -> NamedHttpError("ServerError", message, status)
    [] OTHER -> HttpServiceError(message, status)

\* String.prototype.includes on the texts the model uses
NetworkTexts == {"Network Authentication Required", "Network request failed",
                 "Network error occurred"}
FetchTexts == {"fetch failed"}
Includes(message, needle) ==
  CASE needle = "Network" -> message.text \in NetworkTexts
    [] needle = "network" -> FALSE
    [] needle = "fetch"   -> message.text \in FetchTexts
    [] OTHER -> FALSE


(***************************************************************************)
(* Values                                                                  *)
(***************************************************************************)
NoError == Err("", "", Message(""), 0, FALSE, FALSE, FALSE)

\* response data: the parsed body, and how often a response interceptor
\* replaced it by a transformed copy
Data(body) == [body |-> body, wraps |-> 0]
NoValue == Data(NoData)
\* JavaScript truthiness of a data value: the empty string is falsy
Truthy(data) == data.wraps > 0 \/ data.body \notin {"", NoData}

Response(data, status, statusText) ==
  [data |-> data, status |-> status, statusText |-> statusText]
NoResponse == Response(NoValue, 0, "")

Pending == [st |-> "pending", value |-> NoResponse, error |-> NoError]
Unsettled == [st |-> "none", value |-> NoResponse, error |-> NoError]
Fulfilled(response) == [st |-> "fulfilled", value |-> response, error |-> NoError]
Rejected(error) == [st |-> "rejected", value |-> NoResponse, error |-> error]
Settled(p) == p.st \in {"fulfilled", "rejected"}

\* history events of one call
Ev(ev, tag, num, attempt, auth) ==
  [ev |-> ev, tag |-> tag, num |-> num, attempt |-> attempt, auth |-> auth]

\* a || b and a ?? b on optional numbers
OrElse(a, b) == IF a = Undefined \/ a = 0 THEN b ELSE a
Coalesce(a, b) == IF a = Undefined THEN b ELSE a

(***************************************************************************)
(* Transport results: what `await fetch(url, requestInit)` produces        *)
(***************************************************************************)
\* tag: "ok" / "http" for a response, the class of the exception fetch
\* rejects with, or the cause of the abort; text: the statusText of a
\* response (the standard reason phrase of the status) or the message of
\* the exception
Result(tag, status, text, body) ==
  [tag |-> tag, status |-> status, text |-> text, body |-> body]
OkResults == {Result("ok", 200, "OK", "{id:1}"), Result("ok", 200, "OK", "")}
HttpFailures ==
  {Result("http", 401, "Unauthorized", ""),
   Result("http", 404, "Not Found", ""),
   Result("http", 500, "Internal Server Error", ""),
   Result("http", 503, "Service Unavailable", ""),
   Result("http", 511, "Network Authentication Required", "")}
Exceptions ==
  {Result("TypeError", 0, "fetch failed", ""),
   Result("Error", 0, "Network request failed", ""),
   Result("Error", 0, "boom", "")}
\* the abort of the signal handed to fetch: by the timer of executeRequest,
\* or by the caller through config.signal
Aborts == {Result("timeout", 0, "", ""), Result("userAbort", 0, "", "")}
AllResults == OkResults \cup HttpFailures \cup Exceptions \cup Aborts

(***************************************************************************)
(* Request configurations                                                  *)
(***************************************************************************)
RequestConfig(method, data, retries, retryDelay, skipAuth, signal) ==
  [method |-> method, url |-> "/a", data |-> data, body |-> "",
   headers |-> "", timeout |-> Undefined, cacheTimeout |-> Undefined,
   retries |-> retries, retryDelay |-> retryDelay, skipAuth |-> skipAuth,
   skipCache |-> FALSE, signal |-> signal]

\* createCacheKey: `${method}:${url}:${body}` with body from config.data
createCacheKey(url, cfg) ==
  <<IF cfg.method = "" THEN "GET" ELSE cfg.method, url, cfg.data>>

\* HttpCache.generateKeyLegacy: `${method}:${url}:${body}` with body from
\* options.body
generateKeyLegacy(url, options) ==
  <<IF options.method = "" THEN "GET" ELSE options.method, url, options.body>>

Methods == {"", "GET", "POST"}
MethodRank(m) == CASE m = "" -> 0 [] m = "GET" -> 1 [] OTHER -> 2
Keys == {<<m, "/a", "">> : m \in {"GET", "POST"}}

\* the constructor of HttpService
HttpServiceConfig(input) ==
  [timeout |-> OrElse(input.timeout, DefaultTimeout),
   retries |-> OrElse(input.retries, DefaultRetries),
   retryDelay |-> OrElse(input.retryDelay, DefaultRetryDelay),
   cacheTimeout |-> OrElse(input.cacheTimeout, DefaultCacheTimeout),
   enableCache |-> input.enableCache,
   enableDeduplication |-> input.enableDeduplication]


(***************************************************************************)
(* Interceptor chains.  An interceptor is modelled by its kind:            *)
(*   response "wrap"  returns a new envelope with transformed data,        *)
(*   response "throw" throws,                                              *)
(*   error "mark"     returns the error renamed, classification unchanged. *)
(***************************************************************************)
InterceptorError == Err("Error", "Error", Message("interceptor failed"), 0,
                        FALSE, FALSE, FALSE)

RECURSIVE applyResponseInterceptors(_, _)
\* result: [thrown, response]
applyResponseInterceptors(chain, response) ==
  IF chain = <<>> THEN [thrown |-> FALSE, response |-> response]
  ELSE IF Head(chain) = "throw" THEN [thrown |-> TRUE, response |-> response]
  ELSE applyResponseInterceptors(Tail(chain),
         [response EXCEPT !.data.wraps = @ + 1])

RECURSIVE applyErrorInterceptors(_, _)
applyErrorInterceptors(chain, error) ==
  IF chain = <<>> THEN error
  ELSE applyErrorInterceptors(Tail(chain), [error EXCEPT !.name = "Marked"])

(***************************************************************************)
(* Error handling of makeRequest                                           *)
(***************************************************************************)
wrapError(error) ==
  IF error.cls = "HttpServiceError" THEN error
  ELSE HttpServiceError(error.message, 0)

\* result: [thrown, error, chain]: thrown = the function threw error instead
\* of returning it; chain = the error interceptors ran
handleRequestError(error) ==
  IF error.cls = "DOMException" /\ error.name = "AbortError"
  THEN [thrown |-> TRUE, chain |-> FALSE,
        error |-> AbortError(Message("Request aborted"))]
  ELSE IF error.cls = "TypeError" /\ Includes(error.message, "fetch")
  THEN [thrown |-> TRUE, chain |-> FALSE,
        error |-> NetworkError(Message("Network error occurred"))]
  ELSE IF Includes(error.message, "Network")
          \/ Includes(error.message, "network")
          \/ Includes(error.message, "fetch")
  THEN [thrown |-> TRUE, chain |-> FALSE, error |-> NetworkError(error.message)]
  ELSE [thrown |-> FALSE, chain |-> TRUE,
        error |-> applyErrorInterceptors(errorInterceptors, wrapError(error))]

\* variant: every HTTP failure is retried
shouldRetryAnyStatus(error) ==
  error.isNetworkError \/ error.isTimeoutError
  \/ (error.status # 0 /\ error.status >= 400)

shouldRetry(error) ==
  IF error.status # 0 /\ error.status >= 400 /\ error.status < 500
  THEN FALSE
  ELSE error.isNetworkError \/ error.isTimeoutError
       \/ (error.status # 0 /\ error.status >= 500)

\* variant: the two messages are exchanged
determineAbortErrorMessageSwapped(timeoutTriggered, signalAborted) ==
  IF timeoutTriggered THEN "Request aborted by user"
  ELSE IF signalAborted THEN "Request timeout"
  ELSE "Request aborted by user"

determineAbortErrorMessage(timeoutTriggered, signalAborted) ==
  IF timeoutTriggered THEN "Request timeout"
  ELSE IF signalAborted THEN "Request aborted by user"
  ELSE "Request timeout"

\* the value thrown out of executeRequest when fetch settled with r
\* (r is not an ok response)
executeRequestError(cfg, r) ==
  CASE r.tag = "http" -> createHttpError(r.status, r.text)
    [] r.tag = "timeout" ->
         AbortError(Message(determineAbortErrorMessage(TRUE, FALSE)))
    [] r.tag = "userAbort" ->
         AbortError(Message(determineAbortErrorMessage(FALSE, cfg.signal)))
    [] OTHER -> Err(r.tag, r.tag, Message(r.text), 0, FALSE, FALSE, FALSE)

\* the delay of the timer executeRequest arms; Undefined when the caller
\* supplied a signal and no timer is created
TimeoutTimer(cfg) ==
  IF cfg.signal THEN Undefined ELSE OrElse(cfg.timeout, config.timeout)

\* which results fetch can settle with for this request: the timer of
\* executeRequest exists only without a caller signal, and only a caller
\* signal can be aborted by the caller
Possible(cfg, r) ==
  /\ r.tag = "timeout" => TimeoutTimer(cfg) # Undefined
  /\ r.tag = "userAbort" => cfg.signal

EffectiveRetries(c) == Coalesce(rc[c].retries, config.retries)
EffectiveRetryDelay(c) == OrElse(rc[c].retryDelay, config.retryDelay)

(***************************************************************************)
(* HttpCache.  The Map `cache` is the sequence of its entries in insertion *)
(* order.  A key is the sequence of the parts of the key string: a key     *)
(* given by the caller is <<key>>, a generated key is <<method, url, body>>.*)
(***************************************************************************)
RawKey(s) == <<s>>
\* `if (oldestKey)`: the empty string is falsy
TruthyKey(key) == key # RawKey("")

CacheEntry(key, data, timestamp, ttl, lastAccessed) ==
  [key |-> key, data |-> data, timestamp |-> timestamp, ttl |-> ttl,
   lastAccessed |-> lastAccessed]

NoOptions == [defaultTTL |-> Undefined, maxSize |-> Undefined]
\* the constructor of HttpCache
HttpCache(options) ==
  [cache |-> <<>>,
   defaultTTL |-> OrElse(options.defaultTTL, DefaultTTL),
   maxSize |-> OrElse(options.maxSize, DefaultMaxSize)]

\* Map.prototype.has / get / delete / set
MapHas(m, key) == \E i \in DOMAIN m : m[i].key = key
MapGet(m, key) == m[CHOOSE i \in DOMAIN m : m[i].key = key]
MapDelete(m, key) == SelectSeq(m, LAMBDA e : e.key # key)
MapSet(m, entry) ==
  IF MapHas(m, entry.key)
  THEN [i \in DOMAIN m |-> IF m[i].key = entry.key THEN entry ELSE m[i]]
  ELSE Append(m, entry)

\* `now - entry.timestamp > entry.ttl`
Expired(entry, t) == t - entry.timestamp > entry.ttl

\* get(key) at time t; result: [cache, value]
get(h, key, t) ==
  IF ~MapHas(h.cache, key) THEN [cache |-> h, value |-> NoValue]
  ELSE LET entry == MapGet(h.cache, key) IN
       IF Expired(entry, t)
       THEN [cache |-> [h EXCEPT !.cache = MapDelete(@, key)],
             value |-> NoValue]
       ELSE [cache |-> [h EXCEPT !.cache =
                          Append(MapDelete(@, key),
                                 [entry EXCEPT !.lastAccessed = t])],
             value |-> entry.data]

\* has(key) at time t; result: [cache, value]
has(h, key, t) ==
  IF ~MapHas(h.cache, key) THEN [cache |-> h, value |-> FALSE]
  ELSE IF Expired(MapGet(h.cache, key), t)
  THEN [cache |-> [h EXCEPT !.cache = MapDelete(@, key)], value |-> FALSE]
  ELSE [cache |-> h, value |-> TRUE]

\* `entry.lastAccessed || entry.timestamp`
AccessTime(entry) == OrElse(entry.lastAccessed, entry.timestamp)

\* the key evictLRU finds: of the first entry with the smallest access time
OldestKey(m) ==
  LET i == CHOOSE i \in DOMAIN m :
             \A j \in DOMAIN m :
               /\ AccessTime(m[i]) <= AccessTime(m[j])
               /\ j < i => AccessTime(m[i]) < AccessTime(m[j])
  IN m[i].key

evictLRU(m) ==
  IF m = <<>> THEN m
  ELSE IF TruthyKey(OldestKey(m)) THEN MapDelete(m, OldestKey(m))
  ELSE m

\* the common end of both overloads of set, at time t
StoreEntry(h, key, data, finalTtl, t) ==
  LET m == IF Len(h.cache) >= h.maxSize /\ ~MapHas(h.cache, key)
           THEN evictLRU(h.cache)
           ELSE h.cache
  IN [h EXCEPT !.cache = MapSet(m, CacheEntry(key, data, t, finalTtl, t))]

\* set(key, data, ttl)
set(h, key, data, ttl, t) ==
  StoreEntry(h, key, data, OrElse(ttl, h.defaultTTL), t)

\* set(url, data, options, ttl): the default of the parameter applies to
\* undefined only
setByUrl(h, url, data, options, ttl, t) ==
  StoreEntry(h, generateKeyLegacy(url, options), data,
             Coalesce(ttl, h.defaultTTL), t)

\* get(url, options)
getByUrl(h, url, options, t) == get(h, generateKeyLegacy(url, options), t)

delete(h, key) == [h EXCEPT !.cache = MapDelete(@, key)]
clear(h) == [h EXCEPT !.cache = <<>>]
cleanup(h, t) == [h EXCEPT !.cache = SelectSeq(@, LAMBDA e : ~Expired(e, t))]

(***************************************************************************)
(* The cache as request() uses it                                          *)
(***************************************************************************)
\* variant: the method is not looked at
CacheEligibleAnyMethod(cfg) == config.enableCache /\ ~cfg.skipCache

CacheEligible(cfg) ==
  config.enableCache /\ ~cfg.skipCache /\ (cfg.method = "" \/ cfg.method = "GET")

\* getCachedResponse: the envelope served from the cache, or NoResponse
getCachedResponse(fullURL, cfg) ==
  IF ~CacheEligible(cfg) THEN NoResponse
  ELSE LET cached == getByUrl(cache, fullURL, cfg, now).value IN
       IF Truthy(cached) THEN Response(cached, 200, "OK") ELSE NoResponse

\* getCachedResponse: the cache after the lookup
CacheAfterLookup(fullURL, cfg) ==
  IF ~CacheEligible(cfg) THEN cache
  ELSE getByUrl(cache, fullURL, cfg, now).cache

\* cacheResponse: the cache after a successful response
cacheResponse(fullURL, response, cfg) ==
  IF CacheEligible(cfg)
  THEN setByUrl(cache, fullURL, response.data, cfg,
                OrElse(cfg.cacheTimeout, config.cacheTimeout), now)
  ELSE cache

\* variant: the pending table is never consulted
getDeduplicatedRequestMiss(cacheKey) == NoCall

\* getDeduplicatedRequest: the call whose promise is returned, or NoCall
getDeduplicatedRequest(cacheKey) ==
  IF ~config.enableDeduplication \/ pendingRequests[cacheKey] = NoCall
  THEN NoCall
  ELSE pendingRequests[cacheKey]


(***************************************************************************)
(* request(): the steps of one logical call                                *)
(***************************************************************************)
NoMakeRequest ==
  [st |-> "none", attempt |-> 0, auth |-> 0, error |-> NoError, delay |-> 0]

FullURL(c) == rc[c].url
DedupKey(c) == createCacheKey(FullURL(c), rc[c])

\* variant: the entry is left in the pending table
FinallyDeleteSkipped(cacheKey) == pendingRequests

\* the `finally` block of request()
FinallyDelete(cacheKey) ==
  IF config.enableDeduplication
  THEN [pendingRequests EXCEPT ![cacheKey] = NoCall]
  ELSE pendingRequests

\* request() is called: it awaits applyRequestInterceptors
Request(c) ==
  /\ pc[c] = "idle"
  /\ pc' = [pc EXCEPT ![c] = "building"]
  /\ lateStart' = [lateStart EXCEPT ![c] = \E d \in Calls : pc[d] = "done"]
  /\ UNCHANGED <<elsewhere, now, cleared, cacheHistory, config, authConfig,
                 responseInterceptors, errorInterceptors, transport, cache,
                 pendingRequests, rc, promise, mr, joinedTo, outcome, log,
                 doneAtLookup>>

\* after the request interceptors: the cache has the response
RequestCacheHit(c) ==
  /\ pc[c] = "building"
  /\ doneAtLookup' = [doneAtLookup EXCEPT ![c] = {d \in Calls : pc[d] = "done"}]
  /\ getCachedResponse(FullURL(c), rc[c]) # NoResponse
  /\ pc' = [pc EXCEPT ![c] = "done"]
  /\ outcome' = [outcome EXCEPT
                   ![c] = Fulfilled(getCachedResponse(FullURL(c), rc[c]))]
  /\ cache' = CacheAfterLookup(FullURL(c), rc[c])
  /\ UNCHANGED <<elsewhere, now, cleared, cacheHistory, config, authConfig,
                 responseInterceptors, errorInterceptors, transport,
                 pendingRequests, rc, promise, mr, joinedTo, log, lateStart>>

\* after the request interceptors: an identical request is pending, its
\* promise is returned
RequestDeduplicated(c) ==
  /\ pc[c] = "building"
  /\ doneAtLookup' = [doneAtLookup EXCEPT ![c] = {d \in Calls : pc[d] = "done"}]
  /\ getCachedResponse(FullURL(c), rc[c]) = NoResponse
  /\ getDeduplicatedRequest(DedupKey(c)) # NoCall
  /\ joinedTo' = [joinedTo EXCEPT ![c] = getDeduplicatedRequest(DedupKey(c))]
  /\ pc' = [pc EXCEPT ![c] = "joined"]
  /\ cache' = CacheAfterLookup(FullURL(c), rc[c])
  /\ UNCHANGED <<elsewhere, now, cleared, cacheHistory, config, authConfig,
                 responseInterceptors, errorInterceptors, transport,
                 pendingRequests, rc, promise, mr, outcome, log, lateStart>>

\* after the request interceptors: makeRequest() is started (it runs up to
\* its transport call) and its promise is registered
RequestDispatch(c) ==
  /\ pc[c] = "building"
  /\ doneAtLookup' = [doneAtLookup EXCEPT ![c] = {d \in Calls : pc[d] = "done"}]
  /\ getCachedResponse(FullURL(c), rc[c]) = NoResponse
  /\ getDeduplicatedRequest(DedupKey(c)) = NoCall
  /\ promise' = [promise EXCEPT ![c] = Pending]
  /\ mr' = [mr EXCEPT ![c] = [NoMakeRequest EXCEPT !.st = "fetching"]]
  /\ pendingRequests' =
       IF config.enableDeduplication
       THEN [pendingRequests EXCEPT ![DedupKey(c)] = c]
       ELSE pendingRequests
  /\ pc' = [pc EXCEPT ![c] = "awaiting"]
  /\ cache' = CacheAfterLookup(FullURL(c), rc[c])
  /\ UNCHANGED <<elsewhere, now, cleared, cacheHistory, config, authConfig,
                 responseInterceptors, errorInterceptors, transport, rc,
                 joinedTo, outcome, log, lateStart>>

(***************************************************************************)
(* makeRequest() / makeRequestWithAuth() / executeRequest()                *)
(***************************************************************************)
\* variant: the attempt number is not looked at
RefreshEligibleEveryTime(error, cfg, auth) ==
  /\ error.cls = "HttpServiceError"
  /\ error.status = 401
  /\ ~cfg.skipAuth

\* the catch block of makeRequestWithAuth refreshes the token
RefreshEligible(error, cfg, auth) ==
  /\ error.cls = "HttpServiceError"
  /\ error.status = 401
  /\ ~cfg.skipAuth
  /\ auth = 0

\* the attempt number makeRequest passes to makeRequestWithAuth
FirstAuthAttempt == 0

\* the catch block of makeRequest, entered with error; lg is the history
\* up to here
MakeRequestCatch(c, error, lg) ==
  LET h == handleRequestError(error)
      lg2 == IF h.chain
             THEN Append(lg, Ev("errchain", h.error.name, h.error.status,
                                mr[c].attempt, mr[c].auth))
             ELSE lg
      delay == calculateBackoff(mr[c].attempt, EffectiveRetryDelay(c))
  IN IF ~h.thrown /\ mr[c].attempt < EffectiveRetries(c) /\ shouldRetry(h.error)
     THEN /\ mr' = [mr EXCEPT ![c] = [@ EXCEPT !.st = "sleeping",
                                              !.error = h.error,
                                              !.delay = delay]]
          /\ log' = [log EXCEPT ![c] = Append(lg2,
                       Ev("sleep", "", delay, mr[c].attempt, mr[c].auth))]
          /\ UNCHANGED promise
     ELSE /\ mr' = [mr EXCEPT ![c] = [@ EXCEPT !.st = "settled",
                                              !.error = h.error]]
          /\ log' = [log EXCEPT ![c] = lg2]
          /\ promise' = [promise EXCEPT ![c] = Rejected(h.error)]

\* the transport call of call c settles with result r
FetchSettle(c, r) ==
  /\ mr[c].st = "fetching"
  /\ r \in transport
  /\ Possible(rc[c], r)
  /\ Len(log[c]) < MaxEvents
  /\ LET lg == Append(log[c],
                 Ev("fetch", r.tag, r.status, mr[c].attempt, mr[c].auth))
         error == executeRequestError(rc[c], r)
     IN IF r.tag = "ok"
        THEN /\ mr' = [mr EXCEPT ![c] = [@ EXCEPT !.st = "settled"]]
             /\ promise' = [promise EXCEPT ![c] =
                  Fulfilled(Response(Data(r.body), r.status, r.text))]
             /\ log' = [log EXCEPT ![c] = lg]
        ELSE IF RefreshEligible(error, rc[c], mr[c].auth)
                /\ authConfig.refreshToken
        THEN /\ mr' = [mr EXCEPT ![c] = [@ EXCEPT !.st = "refreshing",
                                                 !.error = error]]
             /\ log' = [log EXCEPT ![c] = lg]
             /\ UNCHANGED promise
        ELSE MakeRequestCatch(c, error, lg)
  /\ UNCHANGED <<elsewhere, now, cleared, cacheHistory, config, authConfig,
                 responseInterceptors, errorInterceptors, transport, cache,
                 pendingRequests, rc, pc, joinedTo, outcome, lateStart,
                 doneAtLookup>>

\* how authConfig.refreshToken() settles: with a token, with an empty
\* token, with an exception
RefreshOutcomes == {"token", "empty", "threw"}

\* a refreshAuthToken whose catch block notifies nobody
refreshAuthTokenSilent(settlement) ==
  [outcome |-> settlement, token |-> settlement = "token",
   called |-> IF settlement = "threw" THEN "" ELSE "onTokenRefresh"]

\* refreshAuthToken with a refreshToken configured: the observer it calls,
\* and whether what it returns is a (truthy) token
refreshAuthToken(settlement) ==
  [outcome |-> settlement, token |-> settlement = "token",
   called |-> IF settlement = "threw" THEN "onAuthError" ELSE "onTokenRefresh"]

\* no refreshAuthToken has run
NoRefreshes ==
  /\ refreshes = [c \in Calls |-> <<>>]
  /\ abortedSignals = {}

\* refreshAuthToken: authConfig.refreshToken() settles; ok = it returned a
\* token
RefreshSettle(c, ok) ==
  /\ mr[c].st = "refreshing"
  /\ Len(log[c]) < MaxEvents
  /\ \E settlement \in RefreshOutcomes :
       /\ refreshAuthToken(settlement).token = ok
       /\ refreshes' = [refreshes EXCEPT
                          ![c] = Append(@, refreshAuthToken(settlement))]
  /\ LET lg == Append(log[c],
                 Ev("refresh", IF ok THEN "token" ELSE "failed", 0,
                    mr[c].attempt, mr[c].auth))
     IN IF ok
        THEN /\ mr' = [mr EXCEPT ![c] = [@ EXCEPT !.st = "fetching",
                                                 !.auth = @ + 1,
                                                 !.error = NoError]]
             /\ log' = [log EXCEPT ![c] = lg]
             /\ UNCHANGED promise
        ELSE MakeRequestCatch(c, mr[c].error, lg)
  /\ UNCHANGED <<throttle, derivation, keying, chaining, dispatching,
                 abortedSignals, utilities, now, cleared, cacheHistory, config, authConfig,
                 responseInterceptors, errorInterceptors, transport, cache,
                 pendingRequests, rc, pc, joinedTo, outcome, lateStart,
                 doneAtLookup>>

\* the backoff sleep is over: makeRequest(url, config, attempt + 1)
SleepDone(c) ==
  /\ mr[c].st = "sleeping"
  /\ mr' = [mr EXCEPT ![c] = [@ EXCEPT !.st = "fetching",
                                      !.attempt = @ + 1,
                                      !.auth = FirstAuthAttempt,
                                      !.error = NoError,
                                      !.delay = 0]]
  /\ UNCHANGED <<elsewhere, now, cleared, cacheHistory, config, authConfig,
                 responseInterceptors, errorInterceptors, transport, cache,
                 pendingRequests, rc, pc, promise, joinedTo, outcome, log,
                 lateStart, doneAtLookup>>

(***************************************************************************)
(* request(): after `await requestPromise`                                 *)
(***************************************************************************)
\* the call that dispatched resumes: on success it awaits the response
\* interceptors, on failure the finally block runs and the error is thrown
RequestResume(c) ==
  /\ pc[c] = "awaiting"
  /\ Settled(promise[c])
  /\ IF promise[c].st = "fulfilled"
     THEN /\ pc' = [pc EXCEPT ![c] = "responding"]
          /\ UNCHANGED <<pendingRequests, outcome>>
     ELSE /\ pc' = [pc EXCEPT ![c] = "done"]
          /\ pendingRequests' = FinallyDelete(DedupKey(c))
          /\ outcome' = [outcome EXCEPT ![c] = Rejected(promise[c].error)]
  /\ UNCHANGED <<elsewhere, now, cleared, cacheHistory, config, authConfig,
                 responseInterceptors, errorInterceptors, transport, cache,
                 rc, promise, mr, joinedTo, log, lateStart, doneAtLookup>>

\* the response interceptors have run: cache, finally block, return
RequestFinish(c) ==
  /\ pc[c] = "responding"
  /\ LET r == applyResponseInterceptors(responseInterceptors, promise[c].value)
     IN IF r.thrown
        THEN /\ outcome' = [outcome EXCEPT ![c] = Rejected(InterceptorError)]
             /\ UNCHANGED cache
        ELSE /\ outcome' = [outcome EXCEPT ![c] = Fulfilled(r.response)]
             /\ cache' = cacheResponse(FullURL(c), r.response, rc[c])
  /\ pendingRequests' = FinallyDelete(DedupKey(c))
  /\ pc' = [pc EXCEPT ![c] = "done"]
  /\ UNCHANGED <<elsewhere, now, cleared, cacheHistory, config, authConfig,
                 responseInterceptors, errorInterceptors, transport, rc,
                 promise, mr, joinedTo, log, lateStart, doneAtLookup>>

\* a call that returned a pending promise settles when that promise does
JoinerSettle(c) ==
  /\ pc[c] = "joined"
  /\ Settled(promise[joinedTo[c]])
  /\ outcome' = [outcome EXCEPT ![c] = promise[joinedTo[c]]]
  /\ pc' = [pc EXCEPT ![c] = "done"]
  /\ UNCHANGED <<elsewhere, now, cleared, cacheHistory, config, authConfig,
                 responseInterceptors, errorInterceptors, transport, cache,
                 pendingRequests, rc, promise, mr, joinedTo, log, lateStart,
                 doneAtLookup>>

(***************************************************************************)
(* The clock, clearCache() and the cleanup timer of the constructor        *)
(***************************************************************************)
\* what the last operation on the HttpCache returned
Return(op, key, value, found) ==
  [op |-> op, key |-> key, value |-> value, found |-> found]
NoReturn == Return("none", RawKey(""), NoValue, FALSE)

\* the clock is observed a few milliseconds after the construction and a
\* few milliseconds after the default TTL has passed
TickSteps == {1, DefaultTTL}
MaxDrift == 2
MaxNow == InitialNow + DefaultTTL + MaxDrift

\* time passes (the caller has consumed what the last operation returned)
Tick(d) ==
  /\ now + d <= MaxNow
  /\ (now + d - InitialNow) % DefaultTTL <= MaxDrift
  /\ now' = now + d
  /\ ret' = NoReturn
  /\ UNCHANGED <<elsewhere, cleared, lastSet, recency, config, authConfig,
                 responseInterceptors, errorInterceptors, transport, cache,
                 pendingRequests, rc, pc, promise, mr, joinedTo, outcome, log,
                 lateStart, doneAtLookup>>

ClearCache ==
  /\ ~cleared
  /\ cleared' = TRUE
  /\ cache' = clear(cache)
  /\ UNCHANGED <<elsewhere, now, cacheHistory, config, authConfig,
                 responseInterceptors,
                 errorInterceptors, transport, pendingRequests, rc, pc,
                 promise, mr, joinedTo, outcome, log, lateStart, doneAtLookup>>

\* setInterval(() => this.cache.cleanup(), 60000)
CleanupTimer ==
  /\ config.enableCache
  /\ cache' = cleanup(cache, now)
  /\ UNCHANGED <<elsewhere, now, cleared, cacheHistory, config, authConfig,
                 responseInterceptors, errorInterceptors, transport,
                 pendingRequests, rc, pc, promise, mr, joinedTo, outcome, log,
                 lateStart, doneAtLookup>>

(***************************************************************************)
(* HttpCache called directly: set / get / has / delete / clear / cleanup   *)
(* by key.  ret, lastSet and recency record what the caller did and saw.   *)
(***************************************************************************)
CacheKeys == {RawKey(s) : s \in {"", "a", "b"}}
CacheValues == {Data("v1"), Data("v2")}
CacheTTLs == {Undefined, 0, 1}

StoredKeys(h) == {h.cache[i].key : i \in DOMAIN h.cache}

LastSet(value, ttl, at) ==
  [set |-> TRUE, value |-> value, ttl |-> ttl, at |-> at]
NoSet == [set |-> FALSE, value |-> NoValue, ttl |-> Undefined, at |-> 0]

\* the arguments of the last set of the keys that are still stored in h
StillSet(sets, h) ==
  [k \in CacheKeys |-> IF k \in StoredKeys(h) THEN sets[k] ELSE NoSet]
\* the keys in order of their last use, without those no longer stored
Touch(order, key) == Append(SelectSeq(order, LAMBDA k : k # key), key)
Stored(order, h) == SelectSeq(order, LAMBDA k : k \in StoredKeys(h))

Service ==
  <<elsewhere, cleared, config, authConfig, responseInterceptors, errorInterceptors,
    transport, pendingRequests, rc, pc, promise, mr, joinedTo, outcome, log,
    lateStart, doneAtLookup>>

CacheSet(key, data, ttl) ==
  LET after == set(cache, key, data, ttl, now) IN
  /\ cache' = after
  /\ ret' = Return("set", key, data, TRUE)
  /\ lastSet' = StillSet([lastSet EXCEPT ![key] = LastSet(data, ttl, now)],
                         after)
  /\ recency' = Touch(Stored(recency, after), key)
  /\ UNCHANGED <<now, Service>>

CacheGet(key) ==
  LET r == get(cache, key, now) IN
  /\ cache' = r.cache
  /\ ret' = Return("get", key, r.value, MapHas(r.cache.cache, key))
  /\ lastSet' = StillSet(lastSet, r.cache)
  /\ recency' = IF MapHas(r.cache.cache, key)
                THEN Touch(Stored(recency, r.cache), key)
                ELSE Stored(recency, r.cache)
  /\ UNCHANGED <<now, Service>>

CacheHas(key) ==
  LET r == has(cache, key, now) IN
  /\ cache' = r.cache
  /\ ret' = Return("has", key, NoValue, r.value)
  /\ lastSet' = StillSet(lastSet, r.cache)
  /\ recency' = Stored(recency, r.cache)
  /\ UNCHANGED <<now, Service>>

CacheDelete(key) ==
  /\ cache' = delete(cache, key)
  /\ ret' = Return("delete", key, NoValue, MapHas(cache.cache, key))
  /\ lastSet' = StillSet(lastSet, delete(cache, key))
  /\ recency' = Stored(recency, delete(cache, key))
  /\ UNCHANGED <<now, Service>>

CacheClear ==
  /\ cache' = clear(cache)
  /\ ret' = Return("clear", RawKey(""), NoValue, FALSE)
  /\ lastSet' = StillSet(lastSet, clear(cache))
  /\ recency' = <<>>
  /\ UNCHANGED <<now, Service>>

CacheCleanup ==
  /\ cache' = cleanup(cache, now)
  /\ ret' = Return("cleanup", RawKey(""), NoValue, FALSE)
  /\ lastSet' = StillSet(lastSet, cleanup(cache, now))
  /\ recency' = Stored(recency, cleanup(cache, now))
  /\ UNCHANGED <<now, Service>>

(***************************************************************************)
(* RequestQueue (throttle layer): enqueue, processQueue, sortQueue, clear. *)
(* The queue reads the clock only in the difference                        *)
(* Date.now() - lastRequestTime and in timer delays, so the model keeps    *)
(* that difference and the remaining delay of every pending timer; once    *)
(* the minimum interval has elapsed the difference is not counted further. *)
(* QueuedRequest.timestamp is written and never read; it is left out.      *)
(***************************************************************************)
DefaultMaxConcurrent == 6
DefaultMaxQueueSize == 100
DefaultRequestsPerSecond == 10

MaxRequests == 2     \* requests the callers have outstanding at one time
MaxDrains == 3       \* cap on the pending callbacks plus the requests in flight
RequestIds == 1..MaxRequests
Priorities == {0, 1}

\* the RequestConfig as the queue sees it: what priorityFn reads
QueueRequestConfig(priority) == [priority |-> priority]

QueueOptions(maxConcurrent, maxQueueSize, requestsPerSecond, priorityFn) ==
  [maxConcurrent |-> maxConcurrent, maxQueueSize |-> maxQueueSize,
   requestsPerSecond |-> requestsPerSecond, priorityFn |-> priorityFn]
\* priorityFn: "" when not given, else the name of the function
NoQueueOptions == QueueOptions(Undefined, Undefined, Undefined, "")

\* constructor: `config.x || default` for every field
QueueConfig(options) ==
  [maxConcurrent |-> OrElse(options.maxConcurrent, DefaultMaxConcurrent),
   maxQueueSize |-> OrElse(options.maxQueueSize, DefaultMaxQueueSize),
   requestsPerSecond |->
     OrElse(options.requestsPerSecond, DefaultRequestsPerSecond),
   priorityFn |-> IF options.priorityFn = "" THEN "zero"
                  ELSE options.priorityFn]

\* this.config.priorityFn(config); the default is () => 0
priorityFn(fn, cfg) == IF fn = "zero" THEN 0 ELSE cfg.priority

QueuedRequest(id, cfg, priority) ==
  [id |-> id, config |-> cfg, priority |-> priority]

\* the promise returned by enqueue(); "executing" is pending with the
\* executor invoked
QueuePromise(state, error, priority) ==
  [state |-> state, error |-> error, priority |-> priority]
\* a request that is not outstanding has no QueuedRequest
QueueSettled(state, error) == QueuePromise(state, error, Undefined)
Outstanding(p) == p.state \in {"waiting", "executing"}
NotEnqueued == QueueSettled("free", "")
QueueFull == "Request queue is full"
QueueCleared == "Queue cleared"
ExecutorFailed == "executor error"

\* what the last call did: "full" for an enqueue() that threw, and "return",
\* "reschedule" or "dispatch" for a processQueue()
NoAttempt == ""

Highest(ps) == CHOOSE p \in ps : \A r \in ps : r <= p
RECURSIVE ByPriority(_, _)
ByPriority(s, ps) ==
  IF ps = {} THEN <<>>
  ELSE SelectSeq(s, LAMBDA r : r.priority = Highest(ps))
         \o ByPriority(s, ps \ {Highest(ps)})
\* a queue that is left in order of arrival
sortQueueUnsorted(s) == s

\* queue.sort((a, b) => b.priority - a.priority): a stable sort
sortQueue(s) == ByPriority(s, {s[i].priority : i \in DOMAIN s})

\* a delay inserted into the pending timers (kept in order of expiry)
AddTimer(ts, d) ==
  SelectSeq(ts, LAMBDA t : t <= d) \o <<d>> \o SelectSeq(ts, LAMBDA t : t > d)

\* 1000 / requestsPerSecond
minInterval(cfg) == 1000 \div cfg.requestsPerSecond

\* processQueue() that returns when the interval has not elapsed
processQueueDropsEarly(q) ==
  IF q.activeRequests >= queueConfig.maxConcurrent \/ q.queue = <<>>
  THEN [q EXCEPT !.attempt = "return"]
  ELSE IF q.timeSinceLastRequest * queueConfig.requestsPerSecond < 1000
  THEN [q EXCEPT !.attempt = "return"]
  ELSE [q EXCEPT
          !.queue = Tail(@),
          !.activeRequests = @ + 1,
          !.timeSinceLastRequest = 0,
          !.sinceDispatch = 0,
          !.arrivals = SelectSeq(@, LAMBDA id : id # Head(q.queue).id),
          !.requests[Head(q.queue).id] =
             QueuePromise("executing", "", Head(q.queue).priority),
          !.attempt = "dispatch"]

\* processQueue(), up to its await, on the queue state q
processQueue(q) ==
  IF q.activeRequests >= queueConfig.maxConcurrent \/ q.queue = <<>>
  THEN [q EXCEPT !.attempt = "return"]
  ELSE IF q.timeSinceLastRequest * queueConfig.requestsPerSecond < 1000
  THEN [q EXCEPT
          !.timers = AddTimer(@, minInterval(queueConfig)
                                   - q.timeSinceLastRequest),
          !.attempt = "reschedule"]
  ELSE [q EXCEPT
          !.queue = Tail(@),
          !.activeRequests = @ + 1,
          !.timeSinceLastRequest = 0,
          !.sinceDispatch = 0,
          !.arrivals = SelectSeq(@, LAMBDA id : id # Head(q.queue).id),
          !.requests[Head(q.queue).id] =
             QueuePromise("executing", "", Head(q.queue).priority),
          !.attempt = "dispatch"]

\* the fields of the queue as one record, and their assignment
QueueState ==
  [queue |-> queue, activeRequests |-> activeRequests,
   timeSinceLastRequest |-> timeSinceLastRequest, timers |-> timers,
   immediates |-> immediates, requests |-> requests,
   attempt |-> lastAttempt,
   sinceDispatch |-> sinceDispatch, arrivals |-> arrivals]
QueueBecomes(q) ==
  /\ queue' = q.queue
  /\ activeRequests' = q.activeRequests
  /\ timeSinceLastRequest' = q.timeSinceLastRequest
  /\ timers' = q.timers
  /\ immediates' = q.immediates
  /\ requests' = q.requests
  /\ lastAttempt' = q.attempt
  /\ sinceDispatch' = q.sinceDispatch
  /\ arrivals' = q.arrivals

\* the variables outside the RequestQueue
NotThrottle ==
  <<orchestrator, derivation, keying, chaining, dispatching, observing,
    utilities>>

Drains == Len(timers) + immediates

\* enqueue(config, executor)
Enqueue(id, cfg) ==
  \* the callers' requests are interchangeable: the first one that is not
  \* outstanding is the next to be made
  /\ ~Outstanding(requests[id])
  /\ \A j \in RequestIds : j < id => Outstanding(requests[j])
  \* every pending drain was left by a call or by a settlement, and a
  \* settlement needs a dispatch: the calls are held back, never the runtime
  /\ Drains + activeRequests < MaxDrains
  /\ IF Len(queue) >= queueConfig.maxQueueSize
     THEN QueueBecomes([QueueState EXCEPT
            !.requests[id] = QueueSettled("rejected", QueueFull),
            !.attempt = "full"])
     ELSE QueueBecomes(processQueue(
            [QueueState EXCEPT
               !.queue = sortQueue(Append(@, QueuedRequest(id, cfg,
                            priorityFn(queueConfig.priorityFn, cfg)))),
               !.arrivals = Append(@, id),
               !.requests[id] =
                  QueuePromise("waiting", "",
                               priorityFn(queueConfig.priorityFn, cfg))]))
  /\ UNCHANGED <<queueOptions, queueConfig, NotThrottle>>

\* a settlement whose finally block releases the slot without setImmediate
settledWithoutDrain(q, id, ok) ==
  [q EXCEPT
     !.requests[id] = IF ok THEN QueueSettled("resolved", "")
                      ELSE QueueSettled("rejected", ExecutorFailed),
     !.activeRequests = @ - 1,
     !.attempt = NoAttempt]

\* the rest of processQueue() after `await executor(config)`: resolve or
\* reject, then the finally block
settled(q, id, ok) ==
  [q EXCEPT
     !.requests[id] = IF ok THEN QueueSettled("resolved", "")
                      ELSE QueueSettled("rejected", ExecutorFailed),
     !.activeRequests = @ - 1,
     !.immediates = @ + 1,
     !.attempt = NoAttempt]

\* the executor's promise settles
ExecutorSettle(id, ok) ==
  /\ requests[id].state = "executing"
  /\ QueueBecomes(settled(QueueState, id, ok))
  /\ UNCHANGED <<queueOptions, queueConfig, NotThrottle>>

\* a setTimeout(() => this.processQueue(executor), delay) callback runs
TimerFires ==
  /\ timers # <<>>
  /\ Head(timers) = 0
  /\ QueueBecomes(processQueue([QueueState EXCEPT !.timers = Tail(@)]))
  /\ UNCHANGED <<queueOptions, queueConfig, NotThrottle>>

\* a setImmediate(() => this.processQueue(executor)) callback runs
ImmediateFires ==
  /\ immediates > 0
  /\ QueueBecomes(processQueue([QueueState EXCEPT !.immediates = @ - 1]))
  /\ UNCHANGED <<queueOptions, queueConfig, NotThrottle>>

\* clear() that rejects the waiting requests and keeps them in the queue
clearQueueKeepsItems(q) ==
  [q EXCEPT
     !.requests = [id \in RequestIds |->
                     IF \E i \in DOMAIN q.queue : q.queue[i].id = id
                     THEN QueueSettled("rejected", QueueCleared)
                     ELSE q.requests[id]],
     !.attempt = NoAttempt]

\* clear() on the queue state q
clearQueue(q) ==
  [q EXCEPT
     !.requests = [id \in RequestIds |->
                     IF \E i \in DOMAIN q.queue : q.queue[i].id = id
                     THEN QueueSettled("rejected", QueueCleared)
                     ELSE q.requests[id]],
     !.queue = <<>>,
     !.arrivals = <<>>,
     !.attempt = NoAttempt]

QueueClear ==
  /\ QueueBecomes(clearQueue(QueueState))
  /\ UNCHANGED <<queueOptions, queueConfig, NotThrottle>>

\* one millisecond passes
QueueTick ==
  /\ \/ timeSinceLastRequest < minInterval(queueConfig)
     \/ \E i \in DOMAIN timers : timers[i] > 0
  /\ QueueBecomes([QueueState EXCEPT
       !.timeSinceLastRequest = Min(@ + 1, minInterval(queueConfig)),
       !.sinceDispatch = Min(@ + 1, minInterval(queueConfig)),
       !.timers = [i \in DOMAIN timers |->
                     IF timers[i] > 0 THEN timers[i] - 1 ELSE 0],
       !.attempt = NoAttempt])
  /\ UNCHANGED <<queueOptions, queueConfig, NotThrottle>>

\* no RequestQueue in use
NoRequestQueue ==
  /\ queueOptions = NoQueueOptions
  /\ queueConfig = QueueConfig(NoQueueOptions)
  /\ queue = <<>>
  /\ activeRequests = 0
  /\ timeSinceLastRequest = 0
  /\ timers = <<>>
  /\ immediates = 0
  /\ requests = [id \in RequestIds |-> NotEnqueued]
  /\ lastAttempt = NoAttempt
  /\ sinceDispatch = 0
  /\ arrivals = <<>>

(***************************************************************************)
(* HttpService.create(): the instance it is called on ("parent") and the   *)
(* instance it returns ("derived").  The fields of an instance hold        *)
(* references to objects on the heap; a reference is named by the instance *)
(* whose constructor allocated the object and by the field.  Both          *)
(* instances have the cache and deduplication enabled and are called with  *)
(* one and the same GET request.                                           *)
(***************************************************************************)
Instances == {"parent", "derived"}
Chains == {"requestInterceptors", "responseInterceptors", "errorInterceptors"}
InstanceFields == Chains \cup {"cache", "pendingRequests"}
InterceptorFns == {"f"}
MaxAdds == 2         \* calls of add...Interceptor in one behaviour

Ref(owner, field) == <<owner, field>>
NoRef == Ref("", "")
Refs == {Ref(i, f) : i \in Instances, f \in InstanceFields}
NoInstance == [f \in InstanceFields |-> NoRef]
NoPromise == ""

\* the field initialisers and the constructor: a new object for every field
NewObject(field) ==
  CASE field = "cache" -> HttpCache(NoOptions)
    [] field = "pendingRequests" -> [k \in Keys |-> NoPromise]
    [] OTHER -> <<>>
Construct(h, new) ==
  [heap |-> [r \in Refs |-> IF r[1] = new THEN NewObject(r[2]) ELSE h[r]],
   instance |-> [f \in InstanceFields |-> Ref(new, f)]]

\* create() that hands its own interceptor arrays to the new instance
createSharingLists(h, this, new) ==
  [heap |-> Construct(h, new).heap,
   instance |-> [f \in InstanceFields |->
                   IF f \in Chains THEN this[f]
                   ELSE Construct(h, new).instance[f]]]

\* create(): new HttpService(mergedConfig), then a copy of every
\* interceptor array
create(h, this, new) ==
  [heap |-> [r \in Refs |->
               IF r[1] = new /\ r[2] \in Chains THEN h[this[r[2]]]
               ELSE Construct(h, new).heap[r]],
   instance |-> Construct(h, new).instance]

\* what the last operation on an instance was and what it gave the caller
Observed(instance, op, data) ==
  [instance |-> instance, op |-> op, data |-> data]
NoObserved == Observed("", "", "")

\* the closure returned by add...Interceptor
Unsubscribe(instance, chain, fn) ==
  [instance |-> instance, chain |-> chain, fn |-> fn]

\* the one request both instances are called with
TheRequest == RequestConfig("GET", "", Undefined, Undefined, FALSE, FALSE)

\* the variables outside this section
NotDerivation ==
  <<orchestrator, throttle, keying, chaining, dispatching, observing,
    utilities>>

InstanceCreate ==
  /\ instances["derived"] = NoInstance
  /\ LET made == create(heap, instances["parent"], "derived") IN
       /\ heap' = made.heap
       /\ instances' = [instances EXCEPT !["derived"] = made.instance]
  /\ observed' = Observed("parent", "create", "")
  /\ UNCHANGED <<unsubscribes, NotDerivation>>

\* request() on instance i, from the cache lookup to the registration of
\* the dispatch in the pending table
InstanceRequest(i) ==
  LET this == instances[i]
      looked == getByUrl(heap[this.cache], TheRequest.url, TheRequest, now)
      key == createCacheKey(TheRequest.url, TheRequest)
      pending == heap[this.pendingRequests]
  IN
  /\ this # NoInstance
  /\ IF Truthy(looked.value)
     THEN /\ heap' = [heap EXCEPT ![this.cache] = looked.cache]
          /\ observed' = Observed(i, "cache", looked.value.body)
     ELSE IF pending[key] # NoPromise
     THEN /\ heap' = [heap EXCEPT ![this.cache] = looked.cache]
          /\ observed' = Observed(i, "join", pending[key])
     ELSE /\ heap' = [heap EXCEPT
                        ![this.cache] = looked.cache,
                        ![this.pendingRequests] = [pending EXCEPT ![key] = i]]
          /\ observed' = Observed(i, "dispatch", "")
  /\ UNCHANGED <<instances, unsubscribes, NotDerivation>>

\* the dispatch made by instance i settles: cacheResponse on success, and
\* the finally block of request()
InstanceSettle(i, ok) ==
  LET this == instances[i]
      key == createCacheKey(TheRequest.url, TheRequest)
      cached == heap[this.cache]
      pending == heap[this.pendingRequests]
  IN
  /\ this # NoInstance
  /\ pending[key] = i
  /\ heap' = [heap EXCEPT
                ![this.pendingRequests] = [pending EXCEPT ![key] = NoPromise],
                ![this.cache] =
                   IF ok THEN setByUrl(cached, TheRequest.url, Data(i),
                                       TheRequest, DefaultCacheTimeout, now)
                   ELSE cached]
  /\ observed' = Observed(i, "settle", "")
  /\ UNCHANGED <<instances, unsubscribes, NotDerivation>>

\* clearCache() on instance i
InstanceClearCache(i) ==
  /\ instances[i] # NoInstance
  /\ heap' = [heap EXCEPT ![instances[i].cache] = clear(@)]
  /\ observed' = Observed(i, "clearCache", "")
  /\ UNCHANGED <<instances, unsubscribes, NotDerivation>>

\* addRequestInterceptor / addResponseInterceptor / addErrorInterceptor
AddInterceptor(i, chain, fn) ==
  /\ instances[i] # NoInstance
  /\ Len(unsubscribes) < MaxAdds
  /\ heap' = [heap EXCEPT ![instances[i][chain]] = Append(@, fn)]
  /\ unsubscribes' = Append(unsubscribes, Unsubscribe(i, chain, fn))
  /\ observed' = Observed(i, "add", "")
  /\ UNCHANGED <<instances, NotDerivation>>

\* indexOf and splice(index, 1)
RemoveFirst(list, fn) ==
  IF \E n \in DOMAIN list : list[n] = fn
  THEN LET index == CHOOSE n \in DOMAIN list :
                      list[n] = fn /\ \A m \in 1..(n - 1) : list[m] # fn
       IN SubSeq(list, 1, index - 1) \o SubSeq(list, index + 1, Len(list))
  ELSE list

\* a closure returned by add...Interceptor is called
RemoveInterceptor(n) ==
  /\ n \in DOMAIN unsubscribes
  /\ heap' = [heap EXCEPT
                ![instances[unsubscribes[n].instance][unsubscribes[n].chain]] =
                   RemoveFirst(@, unsubscribes[n].fn)]
  /\ observed' = Observed(unsubscribes[n].instance, "remove", "")
  /\ UNCHANGED <<instances, unsubscribes, NotDerivation>>

\* one instance, create() not called
NoDerived ==
  /\ instances = [i \in Instances |->
                    IF i = "parent" THEN Construct([r \in Refs |-> <<>>],
                                                   "parent").instance
                    ELSE NoInstance]
  /\ heap = [r \in Refs |-> NewObject(r[2])]
  /\ unsubscribes = <<>>
  /\ observed = NoObserved

(***************************************************************************)
(* HttpCache.generateKey(config), applied to two request configurations.   *)
(* A headers object is the sequence of its <<name, value>> properties in   *)
(* insertion order, which is the order JSON.stringify writes them in; a    *)
(* string is the sequence of its parts.                                    *)
(***************************************************************************)
\* config.headers: not given, or an object
NoHeaders == [given |-> FALSE, properties |-> <<>>]
HeadersObject(properties) == [given |-> TRUE, properties |-> properties]
HeaderPairs == {<<"accept", "json">>, <<"authorization", "Bearer A">>}
\* the property lists of the plain objects with properties from HeaderPairs
HeaderObjects ==
  {<<>>} \cup {<<p>> : p \in HeaderPairs}
         \cup {<<p, q>> : <<p, q>> \in {pq \in HeaderPairs \X HeaderPairs :
                                          pq[1] # pq[2]}}
KeyConfig(method, url, data, headers) ==
  [method |-> method, url |-> url, data |-> data, headers |-> headers]
KeyConfigs ==
  {KeyConfig(m, u, d, h) :
     m \in Methods, u \in {"", "/a"}, d \in {NoData, "", "x", "y"},
     h \in {NoHeaders} \cup {HeadersObject(o) : o \in HeaderObjects}}

\* JSON.stringify of a string and of a plain object of strings
StringifyString(s) == <<"\"", s, "\"">>
RECURSIVE StringifyProperties(_)
StringifyProperties(obj) ==
  IF obj = <<>> THEN <<>>
  ELSE StringifyString(Head(obj)[1]) \o <<":">> \o StringifyString(Head(obj)[2])
         \o (IF Tail(obj) = <<>> THEN <<>> ELSE <<",">>)
         \o StringifyProperties(Tail(obj))
StringifyObject(obj) == <<"{">> \o StringifyProperties(obj) \o <<"}">>

\* generateKey: `${method}:${url}:${body}:${headers}`
generateKey(cfg) ==
  LET method == IF cfg.method = "" THEN "GET" ELSE cfg.method
      url == cfg.url
      body == IF cfg.data \in {NoData, ""} THEN <<>>
              ELSE StringifyString(cfg.data)
      headers == IF ~cfg.headers.given THEN <<>>
                 ELSE StringifyObject(cfg.headers.properties)
  IN <<method, ":", url, ":">> \o body \o <<":">> \o headers

NoKey == <<>>

\* the variables outside this section
NotKeying ==
  <<orchestrator, throttle, derivation, chaining, dispatching, observing,
    utilities>>

\* cache.generateKey(config1); cache.generateKey(config2)
GenerateKeys ==
  /\ generated = <<NoKey, NoKey>>
  /\ generated' = <<generateKey(keyConfigs[1]), generateKey(keyConfigs[2])>>
  /\ UNCHANGED <<keyConfigs, NotKeying>>

\* generateKey is not called
NoKeying ==
  /\ keyConfigs = <<KeyConfig("", "", NoData, NoHeaders),
                    KeyConfig("", "", NoData, NoHeaders)>>
  /\ generated = <<NoKey, NoKey>>

(***************************************************************************)
(* One run of an interceptor chain: applyRequestInterceptors,              *)
(* applyResponseInterceptors and applyErrorInterceptors are the same loop, *)
(* `for (const interceptor of this.<chain>) final = await interceptor      *)
(* (final)`, over the live array of the chain.  The run is followed step   *)
(* by step: an interceptor is called, its result is awaited, the loop      *)
(* resumes; between the steps interceptors are registered and removed.     *)
(* chainLog records the calls and the resumptions.                         *)
(***************************************************************************)
MaxRegistered == 3   \* registrations made on the chain
\* an interceptor that returns its result, one that returns a promise of it
ChainFns == {"sync", "async"}
\* an element of this.<chain>: the function, and the serial number of the
\* add...Interceptor call that pushed it
Registration(fn, reg) == [fn |-> fn, reg |-> reg]
NoInterceptor == Registration("", 0)
\* the value handed along the chain: the argument of the run (a shallow copy
\* of it in the request chain) as transformed by the listed registrations
ChainValue(copied, applied) == [copied |-> copied, applied |-> applied]
\* what an interceptor returns for an input
Intercept(interceptor, input) ==
  [input EXCEPT !.applied = Append(@, interceptor.reg)]
NoChainValue == ChainValue(FALSE, <<>>)
\* the run: the chain, where the loop is, the iterator's position in the
\* array, the variable final..., the interceptor being awaited with the
\* argument it was given and whether its promise has settled
ChainRun(chain, state, index, final, called, input, hasSettled) ==
  [chain |-> chain, state |-> state, index |-> index, final |-> final,
   called |-> called, input |-> input, settled |-> hasSettled]
NoChainRun == ChainRun("", "idle", 0, NoChainValue, NoInterceptor,
                       NoChainValue, FALSE)
CallEvent(interceptor, input) ==
  [ev |-> "call", reg |-> interceptor.reg, fn |-> interceptor.fn,
   value |-> input]
AwaitedEvent(interceptor, result) ==
  [ev |-> "awaited", reg |-> interceptor.reg, fn |-> interceptor.fn,
   value |-> result]

\* a loop that hands every interceptor the argument of the run
callNextWithArgument(run, list, history) ==
  IF run.index >= Len(list)
  THEN [run |-> [run EXCEPT !.state = "returned", !.called = NoInterceptor],
        log |-> history]
  ELSE [run |-> [run EXCEPT !.state = "awaiting",
                            !.index = @ + 1,
                            !.called = list[run.index + 1],
                            !.input = ChainValue(run.final.copied, <<>>),
                            !.settled = (list[run.index + 1].fn = "sync")],
        log |-> Append(history,
                  CallEvent(list[run.index + 1],
                            ChainValue(run.final.copied, <<>>)))]

\* the loop head and the call: the array iterator yields the element after
\* the last one it visited, in the array as it is now, and the interceptor
\* is called with final...; after the last element the function returns
callNext(run, list, history) ==
  IF run.index >= Len(list)
  THEN [run |-> [run EXCEPT !.state = "returned", !.called = NoInterceptor],
        log |-> history]
  ELSE [run |-> [run EXCEPT !.state = "awaiting",
                            !.index = @ + 1,
                            !.called = list[run.index + 1],
                            !.input = run.final,
                            !.settled = (list[run.index + 1].fn = "sync")],
        log |-> Append(history, CallEvent(list[run.index + 1], run.final))]

\* the variables outside this section
NotChaining ==
  <<orchestrator, throttle, derivation, keying, dispatching, observing,
    utilities>>

\* add...Interceptor(fn)
ChainAdd(fn) ==
  /\ chainRegistered < MaxRegistered
  /\ chainRegistered' = chainRegistered + 1
  /\ chainList' = Append(chainList, Registration(fn, chainRegistered + 1))
  /\ chainHandles' = Append(chainHandles, fn)
  /\ chainInvoked' = 0
  /\ UNCHANGED <<chainRun, chainLog, chainStart, NotChaining>>

\* indexOf(fn) and splice(index, 1) on the chain
RemoveFn(list, fn) ==
  IF \E n \in DOMAIN list : list[n].fn = fn
  THEN LET index == CHOOSE n \in DOMAIN list :
                      list[n].fn = fn /\ \A m \in 1..(n - 1) : list[m].fn # fn
       IN SubSeq(list, 1, index - 1) \o SubSeq(list, index + 1, Len(list))
  ELSE list

\* the closure returned by the add...Interceptor call number handle is
\* called: it looks for the function it holds
ChainRemove(handle) ==
  /\ handle \in DOMAIN chainHandles
  /\ chainList' = RemoveFn(chainList, chainHandles[handle])
  /\ chainInvoked' = handle
  /\ UNCHANGED <<chainRegistered, chainRun, chainLog, chainHandles,
                 chainStart, NotChaining>>

\* apply...Interceptors(argument) is called and runs up to its first await
ChainApply(chain) ==
  /\ chainRun.state = "idle"
  /\ LET next == callNext(
                   [NoChainRun EXCEPT
                      !.chain = chain,
                      !.final = ChainValue(chain = "requestInterceptors",
                                            <<>>)],
                   chainList, chainLog)
     IN /\ chainRun' = next.run
        /\ chainLog' = next.log
  /\ chainStart' = chainList
  /\ chainInvoked' = 0
  /\ UNCHANGED <<chainList, chainRegistered, chainHandles, NotChaining>>

\* the promise returned by the interceptor being awaited settles
InterceptorSettles ==
  /\ chainRun.state = "awaiting"
  /\ ~chainRun.settled
  /\ chainRun' = [chainRun EXCEPT !.settled = TRUE]
  /\ chainInvoked' = 0
  /\ UNCHANGED <<chainList, chainRegistered, chainLog, chainHandles,
                 chainStart, NotChaining>>

\* the await resumes: with the interceptor's result, which is assigned to
\* final... before the loop goes on, or with its exception, which ends the run
ChainResume(ok) ==
  /\ chainRun.state = "awaiting"
  /\ chainRun.settled
  /\ IF ok
     THEN LET result == Intercept(chainRun.called, chainRun.input)
              next == callNext([chainRun EXCEPT !.final = result], chainList,
                        Append(chainLog,
                               AwaitedEvent(chainRun.called, result)))
          IN /\ chainRun' = next.run
             /\ chainLog' = next.log
     ELSE /\ chainRun' = [chainRun EXCEPT !.state = "thrown",
                                          !.called = NoInterceptor]
          /\ UNCHANGED chainLog
  /\ chainInvoked' = 0
  /\ UNCHANGED <<chainList, chainRegistered, chainHandles, chainStart,
                 NotChaining>>

\* no chain is run
NoChaining ==
  /\ chainList = <<>>
  /\ chainRegistered = 0
  /\ chainRun = NoChainRun
  /\ chainLog = <<>>
  /\ chainHandles = <<>>
  /\ chainInvoked = 0
  /\ chainStart = <<>>

(***************************************************************************)
(* executeRequest step by step: the timer it arms when the caller gave no  *)
(* signal, the fetch, the parsing of the body, the catch block.  The code  *)
(* that follows an await runs as a microtask of the task that settled the  *)
(* promise, before any timer callback; a step below is one such task.      *)
(***************************************************************************)
MaxDispatches == 2   \* executeRequest calls followed
ExecInput(requestTimeout, instanceTimeout, signal) ==
  [timeout |-> requestTimeout, instanceTimeout |-> instanceTimeout,
   signal |-> signal]
\* state: where executeRequest is; timer: "none", "armed", "fired" or
\* "cleared", with the time left; responded: fetch has settled by itself;
\* message: what the dispatch threw
Execution(state, timer, remaining, timeoutTriggered, aborted, responded,
          message) ==
  [state |-> state, timer |-> timer, remaining |-> remaining,
   timeoutTriggered |-> timeoutTriggered, aborted |-> aborted,
   responded |-> responded, message |-> message]
NoExecutionYet == Execution("idle", "none", 0, FALSE, FALSE, FALSE, "")

\* a catch and success path that leave the timer alone
clearTimeoutForgotten(e) == e

\* if (timeoutId) clearTimeout(timeoutId)
clearTimeout(e) ==
  IF e.timer = "armed" THEN [e EXCEPT !.timer = "cleared"] ELSE e

\* the catch block: thrown is what was caught, "AbortError" for the
\* DOMException of an aborted signal
executeRequestCatch(e, thrown) ==
  [clearTimeout(e) EXCEPT
     !.state = "thrown",
     !.message = IF thrown = "AbortError"
                 THEN determineAbortErrorMessage(e.timeoutTriggered,
                                                 e.aborted)
                 ELSE thrown]

\* the variables outside this section
NotDispatching ==
  <<orchestrator, throttle, derivation, keying, chaining, observing,
    utilities>>

\* executeRequest(url, config, headers) up to `await fetch`; serializeBody
\* may throw
ExecuteRequest(serialised) ==
  /\ execution.state \in {"idle", "returned", "thrown"}
  /\ dispatches < MaxDispatches
  /\ dispatches' = dispatches + 1
  /\ LET armed == Execution("fetching",
                    IF execInput.signal THEN "none" ELSE "armed",
                    IF execInput.signal THEN 0
                    ELSE OrElse(execInput.timeout, execInput.instanceTimeout),
                    FALSE, execution.aborted, FALSE, "")
     IN execution' =
          IF ~serialised THEN executeRequestCatch(armed, "TypeError")
          \* fetch with a signal that is aborted already rejects at once
          ELSE IF execution.aborted
          THEN executeRequestCatch(armed, "AbortError")
          ELSE armed
  /\ UNCHANGED <<execInput, NotDispatching>>

\* one millisecond passes
ExecTick ==
  /\ execution.timer = "armed"
  /\ execution.remaining > 0
  /\ execution' = [execution EXCEPT !.remaining = @ - 1]
  /\ UNCHANGED <<execInput, dispatches, NotDispatching>>

\* the setTimeout callback: timeoutTriggered = true; abort(). An aborted
\* fetch or body read rejects with AbortError
ExecTimerFires ==
  /\ execution.timer = "armed"
  /\ execution.remaining = 0
  /\ LET fired == [execution EXCEPT !.timer = "fired",
                                    !.timeoutTriggered = TRUE]
     IN execution' = IF execution.state \in {"fetching", "parsing"}
                     THEN executeRequestCatch(fired, "AbortError")
                     ELSE fired
  /\ UNCHANGED <<execInput, dispatches, NotDispatching>>

\* fetch resolves with a response: clearTimeout, then response.ok decides
FetchResolves(ok) ==
  /\ execution.state = "fetching"
  /\ LET response == [clearTimeout(execution) EXCEPT !.responded = TRUE]
     IN execution' = IF ok THEN [response EXCEPT !.state = "parsing"]
                     ELSE executeRequestCatch(response, "HttpError")
  /\ UNCHANGED <<execInput, dispatches, NotDispatching>>

\* fetch rejects by itself (network failure)
FetchRejects ==
  /\ execution.state = "fetching"
  /\ execution' = executeRequestCatch(
                    [execution EXCEPT !.responded = TRUE], "TypeError")
  /\ UNCHANGED <<execInput, dispatches, NotDispatching>>

\* the caller aborts config.signal
UserAborts ==
  /\ execInput.signal
  /\ ~execution.aborted
  /\ execution.state \in {"fetching", "parsing"}
  /\ execution' = executeRequestCatch([execution EXCEPT !.aborted = TRUE],
                                      "AbortError")
  /\ UNCHANGED <<execInput, dispatches, NotDispatching>>

\* parseResponse settles
ParseSettles(ok) ==
  /\ execution.state = "parsing"
  /\ execution' = IF ok THEN [execution EXCEPT !.state = "returned"]
                  ELSE executeRequestCatch(execution, "SyntaxError")
  /\ UNCHANGED <<execInput, dispatches, NotDispatching>>

\* executeRequest is not followed
NoDispatching ==
  /\ execInput = ExecInput(0, DefaultTimeout, FALSE)
  /\ execution = NoExecutionYet
  /\ dispatches = 0

(***************************************************************************)
(* RequestQueue with the executor of every call: enqueue(config, executor) *)
(* and processQueue(executor), whose callbacks close over the executor of  *)
(* the call that scheduled them.  executorQueue holds the fields of the    *)
(* queue, the pending callbacks, and per request the executor it was       *)
(* enqueued with and the executor that ran it.                             *)
(***************************************************************************)
MaxEnqueues == 3     \* enqueue() calls in one behaviour
EnqueueIds == 1..MaxEnqueues
Executors == {"executorA", "executorB"}
NoExecutor == ""

ExecutorRequest(id, priority) == [id |-> id, priority |-> priority]
ExecutorTimer(delay, executor) == [delay |-> delay, executor |-> executor]

\* setTimeout(() => this.processQueue(executor), delay): the pending timers
\* in order of expiry
AddExecutorTimer(ts, delay, executor) ==
  SelectSeq(ts, LAMBDA t : t.delay <= delay)
    \o <<ExecutorTimer(delay, executor)>>
    \o SelectSeq(ts, LAMBDA t : t.delay > delay)

\* processQueue(executor), up to its await, on the queue q
processQueueWith(q, executor) ==
  IF q.activeRequests >= q.config.maxConcurrent \/ q.queue = <<>>
  THEN q
  ELSE IF q.timeSinceLastRequest * q.config.requestsPerSecond < 1000
  THEN [q EXCEPT
          !.timers = AddExecutorTimer(@, minInterval(q.config)
                                           - q.timeSinceLastRequest, executor)]
  ELSE [q EXCEPT
          !.queue = Tail(@),
          !.activeRequests = @ + 1,
          !.timeSinceLastRequest = 0,
          !.state[Head(q.queue).id] = "executing",
          !.ranBy[Head(q.queue).id] = executor]

\* a RequestQueue just constructed; lastRequestTime = 0 and Date.now() is
\* far beyond any interval
NewExecutorQueue(options) ==
  [config |-> QueueConfig(options),
   queue |-> <<>>,
   activeRequests |-> 0,
   timeSinceLastRequest |-> minInterval(QueueConfig(options)),
   timers |-> <<>>,
   immediates |-> <<>>,
   state |-> [id \in EnqueueIds |-> "free"],
   enqueuedWith |-> [id \in EnqueueIds |-> NoExecutor],
   ranBy |-> [id \in EnqueueIds |-> NoExecutor]]

NotUtilities ==
  <<orchestrator, throttle, derivation, keying, chaining, dispatching,
    observing>>

\* enqueue(config, executor): the ids are used in order
EnqueueWith(id, priority, executor) ==
  /\ executorQueue.state[id] = "free"
  /\ \A j \in EnqueueIds : j < id => executorQueue.state[j] # "free"
  /\ IF Len(executorQueue.queue) >= executorQueue.config.maxQueueSize
     THEN executorQueue' = [executorQueue EXCEPT !.state[id] = "rejected"]
     ELSE executorQueue' = processQueueWith(
            [executorQueue EXCEPT
               !.queue = sortQueue(Append(@, ExecutorRequest(id,
                  priorityFn(executorQueue.config.priorityFn,
                             QueueRequestConfig(priority))))),
               !.state[id] = "waiting",
               !.enqueuedWith[id] = executor],
            executor)
  /\ UNCHANGED <<NotUtilities, pool, throttler>>

\* the promise of the executor that runs request id settles: resolve or
\* reject, then the finally block with setImmediate
ExecutorSettles(id) ==
  /\ executorQueue.state[id] = "executing"
  /\ executorQueue' = [executorQueue EXCEPT
       !.state[id] = "settled",
       !.activeRequests = @ - 1,
       !.immediates = Append(@, executorQueue.ranBy[id])]
  /\ UNCHANGED <<NotUtilities, pool, throttler>>

\* the callback of a setTimeout of processQueue runs
ExecutorTimerFires ==
  /\ executorQueue.timers # <<>>
  /\ Head(executorQueue.timers).delay = 0
  /\ executorQueue' = processQueueWith(
       [executorQueue EXCEPT !.timers = Tail(@)],
       Head(executorQueue.timers).executor)
  /\ UNCHANGED <<NotUtilities, pool, throttler>>

\* the callback of a setImmediate of processQueue runs
ExecutorImmediateFires ==
  /\ executorQueue.immediates # <<>>
  /\ executorQueue' = processQueueWith(
       [executorQueue EXCEPT !.immediates = Tail(@)],
       Head(executorQueue.immediates))
  /\ UNCHANGED <<NotUtilities, pool, throttler>>

\* one millisecond passes
ExecutorTick ==
  /\ \/ executorQueue.timeSinceLastRequest < minInterval(executorQueue.config)
     \/ \E i \in DOMAIN executorQueue.timers :
          executorQueue.timers[i].delay > 0
  /\ executorQueue' = [executorQueue EXCEPT
       !.timeSinceLastRequest = Min(@ + 1, minInterval(executorQueue.config)),
       !.timers = [i \in DOMAIN @ |->
                     IF @[i].delay > 0
                     THEN ExecutorTimer(@[i].delay - 1, @[i].executor)
                     ELSE @[i]]]
  /\ UNCHANGED <<NotUtilities, pool, throttler>>

(***************************************************************************)
(* ConnectionPool: the Map `pools` from host to RequestQueue.  The         *)
(* RequestQueue objects are kept in the order of their construction, each  *)
(* with the host it was made for; pools[host] is the index of an object, 0 *)
(* when the Map has no entry.                                              *)
(***************************************************************************)
MaxQueues == 2       \* RequestQueue objects constructed in one behaviour
Hosts == {"hostA", "hostB"}
PoolExecutor == "executor"
NoQueue == 0

\* { ...this.defaultConfig, ...config }: a field of config that is given
\* replaces the default
SpreadOptions(defaults, given) ==
  QueueOptions(Coalesce(given.maxConcurrent, defaults.maxConcurrent),
               Coalesce(given.maxQueueSize, defaults.maxQueueSize),
               Coalesce(given.requestsPerSecond, defaults.requestsPerSecond),
               IF given.priorityFn = "" THEN defaults.priorityFn
               ELSE given.priorityFn)

ConnectionPool(defaultConfig) ==
  [defaultConfig |-> defaultConfig,
   pools |-> [h \in Hosts |-> NoQueue],
   objects |-> <<>>,
   hostOf |-> <<>>,
   returned |-> <<>>]

\* getQueue(host, config): the pool afterwards; the queue it returns is
\* pools[host]
getQueue(p, host, given) ==
  IF p.pools[host] # NoQueue THEN p
  ELSE [p EXCEPT
          !.objects = Append(@, NewExecutorQueue(
                         SpreadOptions(p.defaultConfig, given))),
          !.hostOf = Append(@, host),
          !.pools[host] = Len(p.objects) + 1]

\* RequestQueue.clear(): the waiting requests are rejected
clearExecutorQueue(q) ==
  [q EXCEPT
     !.state = [id \in EnqueueIds |->
                  IF @[id] = "waiting" THEN "rejected" ELSE @[id]],
     !.queue = <<>>]

\* clearAll(): every queue of the Map is cleared, then the Map
clearAll(p) ==
  [p EXCEPT
     !.objects = [k \in DOMAIN @ |->
                    IF \E h \in Hosts : p.pools[h] = k
                    THEN clearExecutorQueue(@[k]) ELSE @[k]],
     !.pools = [h \in Hosts |-> NoQueue]]

\* request id is not known to any queue
Unused(id) == \A k \in DOMAIN pool.objects : pool.objects[k].state[id] = "free"

\* getQueue(host, config).enqueue(request, executor)
PoolEnqueue(host, given, id) ==
  /\ Unused(id)
  /\ \A j \in EnqueueIds : j < id => ~Unused(j)
  /\ pool.pools[host] # NoQueue \/ Len(pool.objects) < MaxQueues
  /\ LET p == getQueue(pool, host, given)
         k == p.pools[host]
         q == p.objects[k]
     IN pool' = [p EXCEPT
          !.returned = Append(@, <<host, k>>),
          !.objects[k] =
             IF Len(q.queue) >= q.config.maxQueueSize
             THEN [q EXCEPT !.state[id] = "rejected"]
             ELSE processQueueWith(
                    [q EXCEPT
                       !.queue = sortQueue(Append(@, ExecutorRequest(id,
                          priorityFn(q.config.priorityFn,
                                     QueueRequestConfig(0))))),
                       !.state[id] = "waiting",
                       !.enqueuedWith[id] = PoolExecutor],
                    PoolExecutor)]
  /\ UNCHANGED <<NotUtilities, executorQueue, throttler>>

\* the executor's promise for request id of queue k settles
PoolSettles(k, id) ==
  /\ k \in DOMAIN pool.objects
  /\ pool.objects[k].state[id] = "executing"
  /\ pool' = [pool EXCEPT
       !.objects[k] = [@ EXCEPT
          !.state[id] = "settled",
          !.activeRequests = @ - 1,
          !.immediates = Append(@, pool.objects[k].ranBy[id])]]
  /\ UNCHANGED <<NotUtilities, executorQueue, throttler>>

\* a setTimeout callback of queue k runs
PoolTimerFires(k) ==
  /\ k \in DOMAIN pool.objects
  /\ pool.objects[k].timers # <<>>
  /\ Head(pool.objects[k].timers).delay = 0
  /\ pool' = [pool EXCEPT
       !.objects[k] = processQueueWith([@ EXCEPT !.timers = Tail(@)],
                         Head(pool.objects[k].timers).executor)]
  /\ UNCHANGED <<NotUtilities, executorQueue, throttler>>

\* a setImmediate callback of queue k runs
PoolImmediateFires(k) ==
  /\ k \in DOMAIN pool.objects
  /\ pool.objects[k].immediates # <<>>
  /\ pool' = [pool EXCEPT
       !.objects[k] = processQueueWith([@ EXCEPT !.immediates = Tail(@)],
                         Head(pool.objects[k].immediates))]
  /\ UNCHANGED <<NotUtilities, executorQueue, throttler>>

\* one millisecond passes for every queue
PoolTick ==
  /\ \E k \in DOMAIN pool.objects :
       \/ pool.objects[k].timeSinceLastRequest
            < minInterval(pool.objects[k].config)
       \/ \E i \in DOMAIN pool.objects[k].timers :
            pool.objects[k].timers[i].delay > 0
  /\ pool' = [pool EXCEPT
       !.objects = [k \in DOMAIN @ |->
          [@[k] EXCEPT
             !.timeSinceLastRequest = Min(@ + 1, minInterval(pool.objects[k].config)),
             !.timers = [i \in DOMAIN @ |->
                           IF @[i].delay > 0
                           THEN ExecutorTimer(@[i].delay - 1, @[i].executor)
                           ELSE @[i]]]]]
  /\ UNCHANGED <<NotUtilities, executorQueue, throttler>>

PoolClearAll ==
  /\ pool' = clearAll(pool)
  /\ pool' # pool
  /\ UNCHANGED <<NotUtilities, executorQueue, throttler>>

(***************************************************************************)
(* Throttler: the wrapper returned by throttle(fn).  The model keeps       *)
(* Date.now() - lastExecution (up to delay, beyond which the code does not *)
(* tell the values apart), the pending timer with its remaining delay, and *)
(* per invocation of the wrapper whether fn has run for it.                *)
(***************************************************************************)
MaxInvocations == 4  \* invocations of the wrapper in one behaviour
Invocations == 1..MaxInvocations
ThrottlerTimer(remaining, invocation) ==
  [remaining |-> remaining, invocation |-> invocation]
NoThrottlerTimer == ThrottlerTimer(Undefined, 0)

\* new Throttler(delay): lastExecution = 0 and Date.now() is far beyond delay
Throttler(delayMs) ==
  [delay |-> delayMs,
   sinceLastExecution |-> delayMs,
   timer |-> NoThrottlerTimer,
   invocation |-> [i \in Invocations |-> "free"],
   executions |-> 0,
   lastGap |-> Undefined]

\* fn(...args) runs for invocation i; lastGap is the time since the
\* execution before it
Executes(t, i) ==
  [t EXCEPT !.invocation[i] = "ran",
            !.executions = @ + 1,
            !.lastGap = IF t.executions = 0 THEN Undefined
                        ELSE t.sinceLastExecution,
            !.sinceLastExecution = 0]

\* the wrapper is invoked (invocation i): fn runs at once when delay has
\* passed, else the pending timer is cleared and a new one is set
throttled(t, i) ==
  IF t.sinceLastExecution >= t.delay
  THEN Executes(t, i)
  ELSE [t EXCEPT !.invocation[i] = "scheduled",
                 !.timer = ThrottlerTimer(t.delay - t.sinceLastExecution, i)]

ThrottlerInvoke(i) ==
  /\ throttler.invocation[i] = "free"
  /\ \A j \in Invocations : j < i => throttler.invocation[j] # "free"
  /\ throttler' = throttled(throttler, i)
  /\ UNCHANGED <<NotUtilities, executorQueue, pool>>

\* the setTimeout callback runs: lastExecution = Date.now(), resolve(fn())
ThrottlerTimerFires ==
  /\ throttler.timer # NoThrottlerTimer
  /\ throttler.timer.remaining = 0
  /\ throttler' = [Executes(throttler, throttler.timer.invocation)
                     EXCEPT !.timer = NoThrottlerTimer]
  /\ UNCHANGED <<NotUtilities, executorQueue, pool>>

\* one millisecond passes; a timer that is due may still be waiting for
\* the task that is running
ThrottlerTick ==
  /\ \/ throttler.sinceLastExecution < throttler.delay
     \/ throttler.timer # NoThrottlerTimer /\ throttler.timer.remaining > 0
  /\ throttler' = [throttler EXCEPT
       !.sinceLastExecution = Min(@ + 1, throttler.delay),
       !.timer = IF @ # NoThrottlerTimer /\ @.remaining > 0
                 THEN ThrottlerTimer(@.remaining - 1, @.invocation)
                 ELSE @]
  /\ UNCHANGED <<NotUtilities, executorQueue, pool>>

\* no helper of the throttle layer in use
NoUtilities ==
  /\ executorQueue = NewExecutorQueue(NoQueueOptions)
  /\ pool = ConnectionPool(NoQueueOptions)
  /\ throttler = Throttler(0)

InitElsewhere ==
  /\ NoRequestQueue
  /\ NoDerived
  /\ NoKeying
  /\ NoChaining
  /\ NoDispatching
  /\ NoRefreshes
  /\ NoUtilities

(***************************************************************************)
(* Specifications                                                          *)
(***************************************************************************)
InstanceInput(retries, retryDelay, enableCache, enableDeduplication) ==
  [timeout |-> Undefined, retries |-> retries, retryDelay |-> retryDelay,
   enableCache |-> enableCache, cacheTimeout |-> Undefined,
   enableDeduplication |-> enableDeduplication]

InitCalls ==
  /\ InitElsewhere
  /\ cache = HttpCache(NoOptions)
  /\ now = InitialNow
  /\ cleared = FALSE
  /\ ret = NoReturn
  /\ lastSet = [k \in CacheKeys |-> NoSet]
  /\ recency = <<>>
  /\ pendingRequests = [k \in Keys |-> NoCall]
  /\ pc = [c \in Calls |-> "idle"]
  /\ promise = [c \in Calls |-> Unsettled]
  /\ mr = [c \in Calls |-> NoMakeRequest]
  /\ joinedTo = [c \in Calls |-> NoCall]
  /\ outcome = [c \in Calls |-> Unsettled]
  /\ log = [c \in Calls |-> <<>>]
  /\ lateStart = [c \in Calls |-> FALSE]
  /\ doneAtLookup = [c \in Calls |-> {}]

\* Spec: concurrent calls on one instance; no token refresh is configured
ConcurrentResults ==
  {Result("ok", 200, "OK", "{id:1}"),
   Result("http", 503, "Service Unavailable", ""),
   Result("TypeError", 0, "fetch failed", "")}

Init ==
  /\ config \in {HttpServiceConfig(InstanceInput(1, Undefined, ec, ed)) :
                   ec \in BOOLEAN, ed \in BOOLEAN}
  /\ authConfig = [refreshToken |-> FALSE]
  /\ responseInterceptors \in {<<>>, <<"wrap">>, <<"throw">>}
  /\ errorInterceptors = <<>>
  /\ transport = ConcurrentResults
  /\ rc \in [Calls -> {RequestConfig(m, "", Undefined, Undefined, FALSE, FALSE) :
                         m \in Methods}]
  \* the calls are interchangeable: only one order of their configurations
  /\ \A c \in Calls, d \in Calls :
       c < d => MethodRank(rc[c].method) <= MethodRank(rc[d].method)
  /\ InitCalls

Next ==
  \E c \in Calls :
    \/ Request(c)
    \/ RequestCacheHit(c)
    \/ RequestDeduplicated(c)
    \/ RequestDispatch(c)
    \/ \E r \in AllResults : FetchSettle(c, r)
    \/ SleepDone(c)
    \/ RequestResume(c)
    \/ RequestFinish(c)
    \/ JoinerSettle(c)

Spec == Init /\ [][Next]_vars

\* SpecRetry: one logical call, every transport result, per-request and
\* instance retry settings, token refresh
MaxRetries == 2
RetryCounts == {Undefined} \cup 0..MaxRetries
RetryDelays == {Undefined, 0, 500, 16000}
RequestTimeouts == {Undefined, 5000}

InitRetry ==
  /\ config \in {HttpServiceConfig(InstanceInput(r, d, TRUE, TRUE)) :
                   r \in {0, 1}, d \in {0, 2000}}
  /\ authConfig \in {[refreshToken |-> b] : b \in BOOLEAN}
  /\ responseInterceptors = <<>>
  /\ errorInterceptors \in {<<>>, <<"mark">>}
  /\ transport = AllResults
  /\ rc \in [Calls -> {[RequestConfig("POST", "", r, d, sa, sg)
                            EXCEPT !.timeout = t] :
                         r \in RetryCounts, d \in RetryDelays,
                         sa \in BOOLEAN, sg \in BOOLEAN,
                         t \in RequestTimeouts}]
  /\ \A c \in Calls : c # 1 => rc[c] = rc[1]
  /\ InitCalls

NextRetry ==
  \E c \in {1} :
    \/ Request(c)
    \/ RequestDispatch(c)
    \/ \E r \in AllResults : FetchSettle(c, r)
    \/ \E ok \in BOOLEAN : RefreshSettle(c, ok)
    \/ SleepDone(c)
    \/ RequestResume(c)
    \/ RequestFinish(c)

SpecRetry == InitRetry /\ [][NextRetry]_vars

(***************************************************************************)
(* Callers that share one dispatch: each call passes its own signal and    *)
(* its own headers                                                         *)
(***************************************************************************)
ShareHeaders == {"Authorization: a", "Authorization: b"}
ShareResults ==
  {Result("ok", 200, "OK", "{id:1}"),
   Result("http", 404, "Not Found", ""),
   Result("userAbort", 0, "", "")}

\* the call whose makeRequest serves call c
Dispatcher(c) == IF joinedTo[c] = NoCall THEN c ELSE joinedTo[c]

\* the caller of c aborts the signal it passed while the transport call
\* that serves c is pending
AbortSignal(c) ==
  /\ rc[c].signal
  /\ c \notin abortedSignals
  /\ pc[c] \in {"awaiting", "joined"}
  /\ mr[Dispatcher(c)].st = "fetching"
  /\ abortedSignals' = abortedSignals \cup {c}
  /\ UNCHANGED <<orchestrator, throttle, derivation, keying, chaining,
                 dispatching, refreshes, utilities>>

\* executeRequest: fetch is handed config.signal of the call that
\* dispatched; it has been aborted
fetchSignal(c) == c \in abortedSignals

\* the transport call of c settles: with the abort error when its signal
\* has been aborted, and only then
SignalledFetchSettle(c, r) ==
  /\ r.tag = "userAbort" <=> fetchSignal(c)
  /\ FetchSettle(c, r)

InitShare ==
  /\ config \in {HttpServiceConfig(InstanceInput(0, Undefined, ec, TRUE)) :
                   ec \in BOOLEAN}
  /\ authConfig = [refreshToken |-> FALSE]
  /\ responseInterceptors = <<>>
  /\ errorInterceptors = <<>>
  /\ transport = ShareResults
  /\ rc \in [Calls -> {[RequestConfig(m, "", Undefined, Undefined, FALSE, TRUE)
                            EXCEPT !.headers = h] :
                         m \in {"GET", "POST"}, h \in ShareHeaders}]
  /\ InitCalls

NextShare ==
  \E c \in Calls :
    \/ Request(c)
    \/ RequestCacheHit(c)
    \/ RequestDeduplicated(c)
    \/ RequestDispatch(c)
    \/ AbortSignal(c)
    \/ \E r \in ShareResults : SignalledFetchSettle(c, r)
    \/ RequestResume(c)
    \/ RequestFinish(c)
    \/ JoinerSettle(c)

SpecShare == InitShare /\ [][NextShare]_vars

\* SpecCache: two calls on one instance, one after the other or
\* overlapping, while time passes; GET and POST, two header sets, skipCache
CacheCalls == {1, 2}
CacheResults == OkResults \cup {Result("http", 404, "Not Found", "")}
CacheRequestConfig(method, headers, skipCache) ==
  [RequestConfig(method, "", 0, Undefined, FALSE, FALSE)
     EXCEPT !.headers = headers, !.skipCache = skipCache]
CacheRequests ==
  <<CacheRequestConfig("GET", "Bearer A", FALSE),
    CacheRequestConfig("GET", "Bearer B", FALSE),
    CacheRequestConfig("", "Bearer A", FALSE),
    CacheRequestConfig("GET", "Bearer A", TRUE),
    CacheRequestConfig("POST", "Bearer A", FALSE)>>

InitCache ==
  /\ config \in {HttpServiceConfig(InstanceInput(Undefined, Undefined, ec, TRUE)) :
                   ec \in BOOLEAN}
  /\ authConfig = [refreshToken |-> FALSE]
  /\ responseInterceptors \in {<<>>, <<"wrap">>}
  /\ config.enableCache \/ responseInterceptors = <<>>
  /\ errorInterceptors = <<>>
  /\ transport = CacheResults
  \* the calls are interchangeable: only one order of their configurations
  /\ \E i \in DOMAIN CacheRequests, j \in DOMAIN CacheRequests :
       /\ i <= j
       /\ rc = [c \in Calls |-> IF c = 2 THEN CacheRequests[j]
                                ELSE CacheRequests[i]]
  /\ InitCalls

NextCache ==
  \/ \E c \in CacheCalls :
       \/ Request(c)
       \/ RequestCacheHit(c)
       \/ RequestDeduplicated(c)
       \/ RequestDispatch(c)
       \/ \E r \in AllResults : FetchSettle(c, r)
       \/ RequestResume(c)
       \/ RequestFinish(c)
       \/ JoinerSettle(c)
  \/ \E d \in TickSteps : Tick(d)
  \/ ClearCache
  \/ CleanupTimer

SpecCache == InitCache /\ [][NextCache]_vars

\* the HttpService instance is not called
InitIdle ==
  /\ config = HttpServiceConfig(InstanceInput(Undefined, Undefined, TRUE, TRUE))
  /\ authConfig = [refreshToken |-> FALSE]
  /\ responseInterceptors = <<>>
  /\ errorInterceptors = <<>>
  /\ transport = {}
  /\ rc = [c \in Calls |->
             RequestConfig("", "", Undefined, Undefined, FALSE, FALSE)]
  /\ pendingRequests = [k \in Keys |-> NoCall]
  /\ pc = [c \in Calls |-> "idle"]
  /\ promise = [c \in Calls |-> Unsettled]
  /\ mr = [c \in Calls |-> NoMakeRequest]
  /\ joinedTo = [c \in Calls |-> NoCall]
  /\ outcome = [c \in Calls |-> Unsettled]
  /\ log = [c \in Calls |-> <<>>]
  /\ lateStart = [c \in Calls |-> FALSE]
  /\ doneAtLookup = [c \in Calls |-> {}]
  /\ now = InitialNow
  /\ cleared = FALSE
  /\ ret = NoReturn
  /\ lastSet = [k \in CacheKeys |-> NoSet]
  /\ recency = <<>>

\* SpecTTL and SpecLRU: an HttpCache of its own, used by key
InitCacheOnly ==
  /\ InitElsewhere
  /\ InitIdle

\* SpecTTL: entries set with and without a ttl, while time passes
TTLKeys == {RawKey("a"), RawKey("b")}
InitTTL ==
  /\ InitCacheOnly
  /\ cache = HttpCache(NoOptions)

NextTTL ==
  \/ \E key \in TTLKeys, data \in CacheValues, ttl \in CacheTTLs :
       CacheSet(key, data, ttl)
  \/ \E key \in TTLKeys : CacheGet(key)
  \/ \E key \in TTLKeys : CacheHas(key)
  \/ \E key \in TTLKeys : CacheDelete(key)
  \/ CacheClear
  \/ CacheCleanup
  \/ \E d \in TickSteps : Tick(d)

SpecTTL == InitTTL /\ [][NextTTL]_vars

\* SpecLRU: a small cache that fills up; entries are set without a ttl and
\* do not expire in the milliseconds observed
MaxSize == 2
InitLRU ==
  /\ InitCacheOnly
  /\ cache \in {HttpCache([defaultTTL |-> Undefined, maxSize |-> n]) :
                  n \in 1..MaxSize}

NextLRU ==
  \/ \E key \in CacheKeys, data \in CacheValues :
       CacheSet(key, data, Undefined)
  \/ \E key \in CacheKeys : CacheGet(key)
  \/ \E key \in CacheKeys : CacheHas(key)
  \/ \E key \in CacheKeys : CacheDelete(key)
  \/ CacheClear
  \/ CacheCleanup
  \/ Tick(1)

SpecLRU == InitLRU /\ [][NextLRU]_vars


\* SpecQueue: one RequestQueue; requests of two priorities are enqueued,
\* dispatched at most maxConcurrent at a time and requestsPerSecond apart,
\* settled, cleared. maxConcurrent and requestsPerSecond are positive.
Concurrencies == {1, 2}
QueueSizes == {0, 1, 2}
Rates == {500, 1000}
InitQueue ==
  /\ InitIdle
  /\ cache = HttpCache(NoOptions)
  /\ queueOptions \in
       {QueueOptions(mc, mq, r, fn) :
          mc \in Concurrencies, mq \in QueueSizes, r \in Rates,
          fn \in {"", "byPriority"}}
  /\ queueConfig = QueueConfig(queueOptions)
  /\ queue = <<>>
  /\ activeRequests = 0
  \* lastRequestTime = 0 and Date.now() is far beyond any interval
  /\ timeSinceLastRequest = minInterval(queueConfig)
  /\ sinceDispatch = minInterval(queueConfig)
  /\ timers = <<>>
  /\ immediates = 0
  /\ requests = [id \in RequestIds |-> NotEnqueued]
  /\ lastAttempt = NoAttempt
  /\ arrivals = <<>>
  /\ NoDerived
  /\ NoKeying
  /\ NoChaining
  /\ NoDispatching
  /\ NoRefreshes
  /\ NoUtilities

NextQueue ==
  \/ \E id \in RequestIds, p \in Priorities :
       Enqueue(id, QueueRequestConfig(p))
  \/ \E id \in RequestIds, ok \in BOOLEAN : ExecutorSettle(id, ok)
  \/ TimerFires
  \/ ImmediateFires
  \/ QueueClear
  \/ QueueTick

SpecQueue == InitQueue /\ [][NextQueue]_vars

\* SpecQueueLive: SpecQueue with the scheduling the runtime guarantees: every
\* executor's promise settles, the timer and setImmediate callbacks run, time
\* passes. Callers are free: nothing obliges them to enqueue or to clear.
FairQueue ==
  /\ \A id \in RequestIds : WF_vars(\E ok \in BOOLEAN : ExecutorSettle(id, ok))
  /\ WF_vars(TimerFires)
  /\ WF_vars(ImmediateFires)
  /\ WF_vars(QueueTick)

\* the queues in which both limits and the priorities are at work
InitQueueLive ==
  /\ InitQueue
  /\ \A size \in QueueSizes : size <= queueOptions.maxQueueSize
  /\ \A rate \in Rates : queueOptions.requestsPerSecond <= rate
  /\ queueOptions.priorityFn = "byPriority"

SpecQueueLive == InitQueueLive /\ [][NextQueue]_vars /\ FairQueue

\* SpecCreate: an instance and the instance made from it by create();
\* interceptors are registered before and after, both are called
InitCreate ==
  /\ InitIdle
  /\ cache = HttpCache(NoOptions)
  /\ NoRequestQueue
  /\ NoKeying
  /\ NoDerived
  /\ NoChaining
  /\ NoDispatching
  /\ NoRefreshes
  /\ NoUtilities

NextCreate ==
  \/ InstanceCreate
  \/ \E i \in Instances : InstanceRequest(i)
  \/ \E i \in Instances, ok \in BOOLEAN : InstanceSettle(i, ok)
  \/ \E i \in Instances : InstanceClearCache(i)
  \/ \E i \in Instances, chain \in Chains, fn \in InterceptorFns :
       AddInterceptor(i, chain, fn)
  \/ \E n \in 1..MaxAdds : RemoveInterceptor(n)

SpecCreate == InitCreate /\ [][NextCreate]_vars

\* SpecKey: generateKey on two request configurations
InitKey ==
  /\ InitIdle
  /\ cache = HttpCache(NoOptions)
  /\ NoRequestQueue
  /\ NoDerived
  /\ NoChaining
  /\ NoDispatching
  /\ NoRefreshes
  /\ NoUtilities
  /\ keyConfigs \in KeyConfigs \X KeyConfigs
  /\ generated = <<NoKey, NoKey>>

NextKey == GenerateKeys

SpecKey == InitKey /\ [][NextKey]_vars

\* SpecChain: interceptors are registered on a chain and removed from it,
\* before, during and after one run of the chain
InitChain ==
  /\ InitIdle
  /\ cache = HttpCache(NoOptions)
  /\ NoRequestQueue
  /\ NoDerived
  /\ NoKeying
  /\ NoChaining
  /\ NoDispatching
  /\ NoRefreshes
  /\ NoUtilities

NextChain ==
  \/ \E fn \in ChainFns : ChainAdd(fn)
  \/ \E handle \in 1..MaxRegistered : ChainRemove(handle)
  \/ \E chain \in Chains : ChainApply(chain)
  \/ InterceptorSettles
  \/ \E ok \in BOOLEAN : ChainResume(ok)

SpecChain == InitChain /\ [][NextChain]_vars

\* SpecExec: executeRequest calls with and without a caller signal, with a
\* request timeout, or the instance's when the request has none (or 0)
ExecTimeouts == {1, 2}
InitExec ==
  /\ InitIdle
  /\ cache = HttpCache(NoOptions)
  /\ NoRequestQueue
  /\ NoDerived
  /\ NoKeying
  /\ NoChaining
  /\ NoRefreshes
  /\ NoUtilities
  /\ execInput \in {ExecInput(t, i, s) :
                     t \in {0} \cup ExecTimeouts, i \in ExecTimeouts,
                     s \in BOOLEAN}
  /\ execution = NoExecutionYet
  /\ dispatches = 0

NextExec ==
  \/ \E serialised \in BOOLEAN : ExecuteRequest(serialised)
  \/ ExecTick
  \/ ExecTimerFires
  \/ \E ok \in BOOLEAN : FetchResolves(ok)
  \/ FetchRejects
  \/ UserAborts
  \/ \E ok \in BOOLEAN : ParseSettles(ok)

SpecExec == InitExec /\ [][NextExec]_vars

\* SpecExecutors: one RequestQueue; requests of two priorities are enqueued
\* with either of two executors, dispatched and settled
InitExecutors ==
  /\ InitIdle
  /\ cache = HttpCache(NoOptions)
  /\ NoRequestQueue
  /\ NoDerived
  /\ NoKeying
  /\ NoChaining
  /\ NoDispatching
  /\ NoRefreshes
  /\ executorQueue \in
       {NewExecutorQueue(QueueOptions(mc, mq, r, fn)) :
          mc \in Concurrencies, mq \in {Undefined, 1}, r \in Rates,
          fn \in {"", "byPriority"}}
  /\ pool = ConnectionPool(NoQueueOptions)
  /\ throttler = Throttler(0)

NextExecutors ==
  \/ \E id \in EnqueueIds, priority \in Priorities, executor \in Executors :
       EnqueueWith(id, priority, executor)
  \/ \E id \in EnqueueIds : ExecutorSettles(id)
  \/ ExecutorTimerFires
  \/ ExecutorImmediateFires
  \/ ExecutorTick

SpecExecutors == InitExecutors /\ [][NextExecutors]_vars

\* SpecPool: one ConnectionPool; requests are enqueued on the queue of
\* either host, dispatched, settled; clearAll is called
InitPool ==
  /\ InitIdle
  /\ cache = HttpCache(NoOptions)
  /\ NoRequestQueue
  /\ NoDerived
  /\ NoKeying
  /\ NoChaining
  /\ NoDispatching
  /\ NoRefreshes
  /\ executorQueue = NewExecutorQueue(NoQueueOptions)
  /\ pool \in {ConnectionPool(QueueOptions(mc, Undefined, r, "")) :
                 mc \in Concurrencies, r \in Rates}
  /\ throttler = Throttler(0)

GivenOptions == {NoQueueOptions, QueueOptions(1, Undefined, Undefined, "")}

NextPool ==
  \/ \E host \in Hosts, given \in GivenOptions, id \in EnqueueIds :
       PoolEnqueue(host, given, id)
  \/ \E k \in 1..MaxQueues :
       \/ \E id \in EnqueueIds : PoolSettles(k, id)
       \/ PoolTimerFires(k)
       \/ PoolImmediateFires(k)
  \/ PoolTick
  \/ PoolClearAll

SpecPool == InitPool /\ [][NextPool]_vars

\* SpecThrottler: one wrapper made by throttle(fn, delay), invoked a few
\* times at any moments; time passes and the timer callback is run
ThrottlerDelays == {1, 2, 3}
InitThrottler ==
  /\ InitIdle
  /\ cache = HttpCache(NoOptions)
  /\ NoRequestQueue
  /\ NoDerived
  /\ NoKeying
  /\ NoChaining
  /\ NoDispatching
  /\ NoRefreshes
  /\ executorQueue = NewExecutorQueue(NoQueueOptions)
  /\ pool = ConnectionPool(NoQueueOptions)
  /\ throttler \in {Throttler(d) : d \in ThrottlerDelays}

NextThrottler ==
  \/ \E i \in Invocations : ThrottlerInvoke(i)
  \/ ThrottlerTimerFires
  \/ ThrottlerTick

FairThrottler ==
  /\ WF_vars(ThrottlerTimerFires)
  /\ WF_vars(ThrottlerTick)

SpecThrottler == InitThrottler /\ [][NextThrottler]_vars /\ FairThrottler

(***************************************************************************)
(* Properties                                                              *)
(***************************************************************************)
FetchEvents(c) == {i \in DOMAIN log[c] : log[c][i].ev = "fetch"}
\* transport calls made for call c so far
FetchCalls(c) ==
  Cardinality(FetchEvents(c)) + (IF mr[c].st = "fetching" THEN 1 ELSE 0)

RECURSIVE SumFetchCalls(_)
SumFetchCalls(n) == IF n = 0 THEN 0 ELSE FetchCalls(n) + SumFetchCalls(n - 1)
TotalFetchCalls == SumFetchCalls(NumCalls)

\* the makeRequest run of call c is in flight
DispatchRunning(c) == pc[c] = "awaiting" /\ promise[c].st = "pending"
AllDone == \A c \in Calls : pc[c] = "done"
SameFingerprint == \A c \in Calls, d \in Calls : DedupKey(c) = DedupKey(d)
\* every dispatch succeeded on its first transport call
NoRetry ==
  \A c \in Calls : log[c] # <<>> => Len(log[c]) = 1 /\ log[c][1].tag = "ok"
ServedFromCache(c) ==
  pc[c] = "done" /\ promise[c].st = "none" /\ joinedTo[c] = NoCall

C2_SameOutcome ==
  \A c \in Calls :
    (pc[c] = "done" /\ joinedTo[c] # NoCall /\ pc[joinedTo[c]] = "done")
      => outcome[c] = outcome[joinedTo[c]]

\* every other identical call had settled when c left "building", or has not
\* left it yet
Fresh(c) ==
  \A d \in Calls \ {c} :
    DedupKey(d) = DedupKey(c)
      => (d \in doneAtLookup[c] \/ pc[d] \in {"idle", "building"})

\* C3: the pending entry a call registered is removed when the call settles,
\* whatever the outcome: an entry always belongs to a call that has not
\* settled, the table is empty when no call is in progress, and an identical
\* call issued after settlement that is not served from the cache makes a new
\* transport call.
C3_PendingCleared ==
  /\ \A k \in Keys :
       pendingRequests[k] # NoCall
         => /\ pc[pendingRequests[k]] \in {"awaiting", "responding"}
            /\ DedupKey(pendingRequests[k]) = k
  /\ (\A c \in Calls : pc[c] \in {"idle", "done"})
       => \A k \in Keys : pendingRequests[k] = NoCall
  /\ \A c \in Calls :
       (pc[c] \notin {"idle", "building"} /\ Fresh(c) /\ ~ServedFromCache(c))
         => (joinedTo[c] = NoCall /\ FetchCalls(c) >= 1)

C3_Witness ==
  /\ config.enableDeduplication
  /\ \E c \in Calls, d \in Calls :
       /\ c # d
       /\ DedupKey(c) = DedupKey(d)
       /\ d \in doneAtLookup[c]
       /\ promise[d].st # "none"
       /\ outcome[d].st = "rejected"
       /\ mr[c].st = "fetching"


(***************************************************************************)
(* Properties of one logical call (SpecRetry)                              *)
(***************************************************************************)
Max(S) == CHOOSE x \in S : \A y \in S : y <= x
LastFetch(c) == log[c][Max(FetchEvents(c))]
RefreshEvents(c) == {i \in DOMAIN log[c] : log[c][i].ev = "refresh"}
RefreshCalls(c) ==
  Cardinality(RefreshEvents(c)) + (IF mr[c].st = "refreshing" THEN 1 ELSE 0)
\* dispatches made by makeRequestWithAuth after a refresh
AuthRetryDispatches(c) ==
  Cardinality({i \in FetchEvents(c) : log[c][i].auth >= 1})
  + (IF mr[c].st = "fetching" /\ mr[c].auth >= 1 THEN 1 ELSE 0)
Is401(e) == e.ev = "fetch" /\ e.tag = "http" /\ e.num = 401
IsClientFailure(e) ==
  /\ e.ev = "fetch"
  /\ \/ (e.tag = "http" /\ e.num >= 400 /\ e.num < 500)
     \/ e.tag = "userAbort"

\* C4: if every transport response of a call is an HTTP status >= 500, the
\* call makes exactly R+1 transport calls (R the effective maximum of
\* retries) and then rejects with the error carrying that status.
C4_ServerErrorsRetried ==
  \A c \in Calls :
    (/\ Settled(promise[c])
     /\ FetchEvents(c) # {}
     /\ \A i \in FetchEvents(c) : log[c][i].tag = "http" /\ log[c][i].num >= 500)
    => /\ FetchCalls(c) = EffectiveRetries(c) + 1
       /\ promise[c].st = "rejected"
       /\ promise[c].error.status = LastFetch(c).num

\* C5: a call whose transport call threw an exception classified as a
\* network error rejects with it only after the retries are exhausted.
C5_NetworkErrorRetried ==
  \A c \in Calls :
    (/\ promise[c].st = "rejected"
     /\ promise[c].error.isNetworkError
     /\ FetchEvents(c) # {}
     /\ LastFetch(c).tag \in {"TypeError", "Error"})
    => mr[c].attempt >= EffectiveRetries(c)

\* C6: a call whose dispatch was aborted by the internal timeout is retried
\* while the attempt count is below the maximum: it rejects with the timeout
\* error only after the retries are exhausted.
C6_TimeoutRetried ==
  \A c \in Calls :
    (/\ promise[c].st = "rejected"
     /\ FetchEvents(c) # {}
     /\ LastFetch(c).tag = "timeout")
    => mr[c].attempt >= EffectiveRetries(c)

\* C7: after a transport result that is an HTTP status in [400,500) or a
\* caller abort there is no backoff wait; the only dispatch that can follow
\* is the auth-refresh retry of a 401, and otherwise the call rejects at once.
C7_ClientErrorsNotRetried ==
  \A c \in Calls :
    \A i \in DOMAIN log[c] :
      IsClientFailure(log[c][i]) =>
        LET later == {k \in FetchEvents(c) : k > i} IN
        /\ \A j \in DOMAIN log[c] :
             (j > i /\ log[c][j].ev = "sleep") => \E k \in later : k < j
        /\ later # {} =>
             LET k == CHOOSE x \in later : \A y \in later : x <= y IN
             /\ Is401(log[c][i]) /\ log[c][i].auth = 0
             /\ log[c][k].auth = 1
             /\ log[c][k].attempt = log[c][i].attempt
        /\ later = {} =>
             \/ mr[c].st = "settled" /\ promise[c].st = "rejected"
             \/ /\ Is401(log[c][i]) /\ log[c][i].auth = 0
                /\ \/ mr[c].st = "refreshing"
                   \/ mr[c].st = "fetching" /\ mr[c].auth = 1

C7_Witness ==
  \E c \in Calls :
    /\ EffectiveRetries(c) > 0
    /\ Cardinality(FetchEvents(c)) = 1
    /\ log[c][1].ev = "fetch" /\ log[c][1].tag = "http" /\ log[c][1].num = 404
    /\ promise[c].st = "rejected"
    /\ promise[c].error.status = 404

\* C8: the wait before the retry after failed attempt k is
\* min(baseDelay * 2^k, 30000), baseDelay being the per-request retryDelay if
\* given, else the instance's.
ClaimedBaseDelay(c) ==
  IF rc[c].retryDelay # Undefined THEN rc[c].retryDelay ELSE config.retryDelay
C8_BackoffDelay ==
  \A c \in Calls :
    \A i \in DOMAIN log[c] :
      log[c][i].ev = "sleep"
        => log[c][i].num =
             Min(ClaimedBaseDelay(c) * 2 ^ log[c][i].attempt, MaxBackoff)

\* C9: for a request that does not skip auth, with a refresh function that
\* succeeds, a 401 triggers exactly one refreshToken call and one retried
\* dispatch; if that dispatch also returns 401 there is no second refresh and
\* the call rejects with the 401 error.
C9_RefreshOnce ==
  \A c \in Calls :
    (~rc[c].skipAuth /\ authConfig.refreshToken) =>
      \A i \in DOMAIN log[c] :
        LET lg == log[c]
            n == Len(log[c])
            e == log[c][i]
        IN /\ (Is401(e) /\ e.auth = 0) =>
                /\ i = n => mr[c].st = "refreshing"
                /\ i < n => lg[i + 1].ev = "refresh"
                /\ (i + 1 = n /\ lg[n].tag = "token")
                     => (mr[c].st = "fetching" /\ mr[c].auth = 1)
                /\ (i + 1 < n /\ lg[i + 1].tag = "token")
                     => /\ lg[i + 2].ev = "fetch"
                        /\ lg[i + 2].auth = 1
                        /\ lg[i + 2].attempt = e.attempt
                /\ Cardinality({j \in RefreshEvents(c) :
                                  lg[j].attempt = e.attempt}) <= 1
                /\ Cardinality({j \in FetchEvents(c) :
                                  lg[j].attempt = e.attempt /\ lg[j].auth >= 1}) <= 1
           /\ (Is401(e) /\ e.auth = 1) =>
                /\ n = i + 1
                /\ lg[n].ev = "errchain"
                /\ mr[c].st = "settled"
                /\ promise[c].st = "rejected"
                /\ promise[c].error.status = 401

C9_Witness ==
  \E c \in Calls :
    /\ ~rc[c].skipAuth /\ authConfig.refreshToken
    /\ Len(log[c]) = 4
    /\ Is401(log[c][1]) /\ log[c][1].auth = 0
    /\ log[c][2].ev = "refresh" /\ log[c][2].tag = "token"
    /\ Is401(log[c][3]) /\ log[c][3].auth = 1
    /\ RefreshCalls(c) = 1
    /\ FetchCalls(c) = 2
    /\ promise[c].st = "rejected"

\* C10: within one request() call, whatever the transport results,
\* refreshToken is invoked at most once and at most one auth-retry dispatch
\* is made.
C10_RefreshOncePerCall ==
  \A c \in Calls : RefreshCalls(c) <= 1 /\ AuthRetryDispatches(c) <= 1

(***************************************************************************)
(* The cache of request()                                                  *)
(***************************************************************************)
\* call c does its cache and dedup lookup in this step
LeavesBuilding(c) == pc[c] = "building" /\ pc'[c] # "building"
\* call d dispatched and returned a response
Succeeded(d) ==
  pc[d] = "done" /\ promise[d].st = "fulfilled" /\ outcome[d].st = "fulfilled"
\* cache-eligible as section 4.3 of the specification states it
ClaimedEligible(cfg) ==
  config.enableCache /\ ~cfg.skipCache /\ cfg.method \in {"", "GET"}
\* no entry written since the construction has outlived the cache timeout
WithinTTL == now - InitialNow <= config.cacheTimeout

\* C11: after a cache-eligible GET has succeeded, an identical GET issued
\* afterwards, before the TTL elapses and without clearCache in between,
\* returns the stored data and makes no transport call, whatever the
\* payload of the response is.
C11_CacheHitForEveryPayload ==
  [][\A c \in Calls, d \in Calls :
       (/\ c # d
        /\ LeavesBuilding(c)
        /\ lateStart[c]
        /\ Succeeded(d)
        /\ ClaimedEligible(rc[d])
        /\ rc[c] = rc[d]
        /\ ~cleared
        /\ WithinTTL)
       => /\ pc'[c] = "done"
          /\ outcome'[c].st = "fulfilled"
          /\ outcome'[c].value.data = outcome[d].value.data
          /\ log'[c] = <<>>]_vars

\* C12: on a cache hit the call has been through its request interceptors
\* (it was in "building"), and what it returns is the envelope built from
\* the cached data after every response interceptor has run on it, in order.
C12_InterceptorsOnCacheHit ==
  [][\A c \in Calls :
       (pc[c] # "done" /\ pc'[c] = "done" /\ promise[c].st = "none"
        /\ joinedTo[c] = NoCall)
       => /\ pc[c] = "building"
          /\ LET envelope == getCachedResponse(FullURL(c), rc[c])
                 r == applyResponseInterceptors(responseInterceptors, envelope)
             IN outcome'[c] = IF r.thrown THEN Rejected(InterceptorError)
                              ELSE Fulfilled(r.response)]_vars

\* an entry is stored in this step: the cache holds afterwards an entry with
\* a key, data or creation time it did not hold before
Written ==
  \E i \in DOMAIN cache'.cache :
    ~\E j \in DOMAIN cache.cache :
       /\ cache.cache[j].key = cache'.cache[i].key
       /\ cache.cache[j].data = cache'.cache[i].data
       /\ cache.cache[j].timestamp = cache'.cache[i].timestamp

\* C13: a request that is not cache-eligible (caching disabled, skipCache,
\* or a method other than GET) neither changes the cache at its lookup nor
\* is served from it, and an entry is stored only by a cache-eligible call
\* whose dispatch ended with an ok response.
C13_CacheOnlyForEligible ==
  [][/\ \A c \in Calls :
          (LeavesBuilding(c) /\ ~ClaimedEligible(rc[c]))
          => (cache' = cache /\ pc'[c] # "done")
     /\ Written =>
          \E c \in Calls :
            /\ pc[c] = "responding" /\ pc'[c] = "done"
            /\ ClaimedEligible(rc[c])
            /\ promise[c].st = "fulfilled"
            /\ log[c] # <<>>
            /\ log[c][Len(log[c])].tag = "ok"
            /\ outcome'[c].st = "fulfilled"]_vars

\* a GET has populated the cache, and a POST or skipCache request and a
\* failed GET have completed
C13_Witness ==
  /\ Len(cache.cache) = 1
  /\ \E c \in Calls, d \in Calls :
       /\ Succeeded(c) /\ ClaimedEligible(rc[c])
       /\ pc[d] = "done" /\ log[d] # <<>>
       /\ \/ ~ClaimedEligible(rc[d]) /\ outcome[d].st = "fulfilled"
          \/ ClaimedEligible(rc[d]) /\ outcome[d].st = "rejected"

\* C14: a call is served from the cache only if an earlier dispatched call
\* with the same resolved URL, body and header set returned a response: two
\* GETs to the same URL that differ in headers never share an entry.
C14_NoSharingAcrossHeaders ==
  \A c \in Calls :
    ServedFromCache(c) =>
      \E d \in Calls \ {c} :
        /\ Succeeded(d)
        /\ FullURL(d) = FullURL(c)
        /\ rc[d].body = rc[c].body
        /\ rc[d].data = rc[c].data
        /\ rc[d].headers = rc[c].headers

(***************************************************************************)
(* HttpCache used by key                                                   *)
(***************************************************************************)
\* the ttl of an entry as the caller gave it: set without ttl uses the
\* default TTL
ClaimedTTL(ls) == IF ls.ttl = Undefined THEN cache.defaultTTL ELSE ls.ttl

\* C15: for a stored entry whose most recent set(key, value, ttl) was at
\* time t0, a get(key) at time t returns the value if t - t0 <= ttl and
\* absent if t - t0 > ttl, has(key) answers the same, and the lookup that
\* finds the entry expired removes it.
C15_TTL ==
  [][(ret'.op \in {"get", "has"} /\ lastSet[ret'.key].set) =>
       LET key == ret'.key
           ls == lastSet[key]
           live == now - ls.at <= ClaimedTTL(ls)
       IN /\ ret'.op = "get" =>
               ret'.value = IF live THEN ls.value ELSE NoValue
          /\ ret'.op = "has" => ret'.found = live
          /\ ~live => ~MapHas(cache'.cache, key)]_vars

\* the keys a set removed from the cache
Evicted == StoredKeys(cache) \ StoredKeys(cache')

\* C16: a set of a key that is not stored, on a cache that holds maxSize
\* entries, evicts exactly the least recently used entry (recency being
\* refreshed by set and by a successful get, not by has); a set of a key
\* that is stored evicts nothing.
C16_EvictsLRU ==
  [][ret'.op = "set" =>
       IF MapHas(cache.cache, ret'.key) THEN Evicted = {}
       ELSE Len(cache.cache) = cache.maxSize => Evicted = {Head(recency)}]_vars

\* C17: an HttpCache with maxSize N >= 1 never stores more than N entries.
C17_SizeBound == Len(cache.cache) <= cache.maxSize

(***************************************************************************)
(* Timeout and abort                                                       *)
(***************************************************************************)
\* the last transport call of call c was aborted: by what
AbortedBy(c) ==
  IF pc[c] = "done" /\ FetchEvents(c) # {}
     /\ LastFetch(c).tag \in {"timeout", "userAbort"}
  THEN LastFetch(c).tag
  ELSE "none"

ChainEvents(c) == {i \in DOMAIN log[c] : log[c][i].ev = "errchain"}

\* C19: during one request() call the registered error interceptors run at
\* most once, and no transport attempt follows their run: they never see
\* the failure of an attempt that is retried.
C19_ChainOnceAfterLastAttempt ==
  \A c \in Calls :
    errorInterceptors # <<>> =>
      /\ Cardinality(ChainEvents(c)) <= 1
      /\ \A i \in ChainEvents(c) :
           /\ mr[c].st = "settled"
           /\ \A j \in FetchEvents(c) : j < i

\* C20: a call whose dispatch failed rejects, the error-interceptor chain
\* has run on that final failure, and the error thrown to the caller is
\* what the chain returned.
C20_FailuresThroughChain ==
  \A c \in Calls :
    (pc[c] = "done" /\ promise[c].st = "rejected") =>
      /\ outcome[c].st = "rejected"
      /\ log[c] # <<>>
      /\ log[c][Len(log[c])].ev = "errchain"
      /\ outcome[c].error =
           applyErrorInterceptors(errorInterceptors, outcome[c].error)

(***************************************************************************)
(* Properties of the RequestQueue (SpecQueue)                              *)
(***************************************************************************)
Waiting == {queue[i].id : i \in DOMAIN queue}
Executing == {id \in RequestIds : requests[id].state = "executing"}
RejectedFull(id) == requests[id] = QueueSettled("rejected", QueueFull)

\* C21: a RequestQueue constructed with maxQueueSize = 0 rejects every
\* enqueue immediately with 'Request queue is full' and never invokes the
\* executor: no request of such a queue is ever waiting, executing, resolved
\* or rejected for another reason.
C21_ZeroSizeRejectsAll ==
  queueOptions.maxQueueSize = 0 =>
    \A id \in RequestIds : requests[id] = NotEnqueued \/ RejectedFull(id)

\* a step in which processQueue() ran, and a step in which it dispatched
AttemptStep == lastAttempt' \in {"return", "reschedule", "dispatch"}
Dispatched == {id \in RequestIds : requests[id].state # "executing"
                                     /\ requests'[id].state = "executing"}
\* the interval 1000 / requestsPerSecond given to the constructor has not
\* elapsed since the executor was last invoked
Early(since) == since * queueOptions.requestsPerSecond < 1000

Position(id) == CHOOSE i \in DOMAIN arrivals : arrivals[i] = id
ArrivedBefore(x, d) ==
  /\ x \in Waiting
  /\ d \in Waiting => Position(x) < Position(d)

\* C23: whenever the queue dispatches, the request taken has the highest
\* priority of the requests waiting at that moment, and no request of the
\* same priority that was enqueued earlier is left waiting.
C23_PriorityThenFIFO ==
  [][\A d \in Dispatched : \A i \in DOMAIN queue' :
       /\ queue'[i].priority <= requests'[d].priority
       /\ queue'[i].priority = requests'[d].priority =>
            ~ArrivedBefore(queue'[i].id, d)]_vars

\* a request was dispatched ahead of a waiting one of lower priority
C23_Witness ==
  /\ lastAttempt = "dispatch"
  /\ \E id \in Executing : \E i \in DOMAIN queue :
       queue[i].priority < requests[id].priority

ClearedError(id) == requests'[id] = QueueSettled("rejected", QueueCleared)
\* a step of clear() on a queue that is not empty
ClearStep == \E id \in Waiting : ClearedError(id)

\* C24: clear() rejects the promise of every waiting request with 'Queue
\* cleared' and leaves the waiting list empty; the in-flight count and the
\* requests already dispatched are as before; and what is dispatched in any
\* step is taken from the waiting list or enqueued in that step, so no
\* request that clear() rejected is dispatched afterwards.
C24_ClearRejectsWaitingOnly ==
  /\ [](\A id \in RequestIds : requests[id].state = "waiting" <=> id \in Waiting)
  /\ [][/\ ClearStep =>
             /\ \A id \in Waiting : ClearedError(id)
             /\ queue' = <<>>
             /\ activeRequests' = activeRequests
             /\ \A id \in RequestIds \ Waiting : requests'[id] = requests[id]
             /\ <<timers', immediates'>> = <<timers, immediates>>
        /\ \A d \in Dispatched :
             /\ d \in Waiting \/ ~Outstanding(requests[d])
             /\ \A i \in DOMAIN queue' : queue'[i].id # d]_vars

\* clear() has rejected a waiting request and emptied the queue while
\* another request is in flight
C24_Witness ==
  /\ \E id \in RequestIds : requests[id] = QueueSettled("rejected", QueueCleared)
  /\ Executing # {}
  /\ activeRequests = Cardinality(Executing)
  /\ queue = <<>>

(***************************************************************************)
(* Properties of create() (SpecCreate)                                     *)
(***************************************************************************)
Exists(i) == instances[i] # NoInstance
\* everything a call on instance i can read or write
View(i) == [f \in InstanceFields |-> heap[instances[i][f]]]
CachedBody(i) ==
  getByUrl(heap[instances[i].cache], TheRequest.url, TheRequest, now).value.body

\* C25: the derived instance starts with an empty cache and pending table
\* and with the parent's three chains; a call is served from the cache only
\* with a response its own instance fetched and joins only a dispatch its
\* own instance made; and no operation on one instance (request, settle,
\* clearCache, registering or de-registering an interceptor) changes the
\* cache, the pending table or a chain of the other.
C25_DerivedInstanceIndependent ==
  /\ [](observed.op \in {"cache", "join"} => observed.data = observed.instance)
  /\ [][/\ (~Exists("derived") /\ Exists("derived")') =>
             /\ View("parent")' = View("parent")
             /\ View("derived")' =
                  [f \in InstanceFields |->
                     IF f \in Chains THEN View("parent")[f]
                     ELSE NewObject(f)]
        /\ \A i \in Instances, j \in Instances :
             (/\ i # j
              /\ Exists(j)
              /\ observed'.instance = i) => View(j)' = View(j)]_vars

\* the parent holds a cached response and an interceptor registered after
\* create(); the derived instance has dispatched the same request itself
\* and its chain is as it was copied
C25_Witness ==
  /\ Exists("derived")
  /\ CachedBody("parent") = "parent"
  /\ observed = Observed("derived", "dispatch", "")
  /\ View("parent").requestInterceptors = <<"f", "f">>
  /\ View("derived").requestInterceptors = <<"f">>

(***************************************************************************)
(* Properties of the error classification (SpecRetry)                      *)
(***************************************************************************)
\* the kind the claim gives to a status
ClaimedKind(status) ==
  CASE status = 400 -> "ValidationError"
    [] status = 401 -> "AuthenticationError"
    [] status = 403 -> "AuthorizationError"
    [] status >= 500 -> "ServerError"
    [] OTHER -> "HttpServiceError"
ReasonPhrase(status) == (CHOOSE r \in HttpFailures : r.status = status).text
\* the call made one transport call, answered by a non-ok response
SingleHttpFailure(c) ==
  /\ Settled(promise[c])
  /\ Cardinality(FetchEvents(c)) = 1
  /\ LastFetch(c).tag = "http"

\* C26: the non-ok response of a call that is not retried reaches the caller
\* (no error interceptor registered) as an error with the status of the
\* response, the kind that belongs to the status, whatever the statusText,
\* and the message 'HTTP <status>: <statusText>'.
C26_KindByStatusAlone ==
  \A c \in Calls :
    (SingleHttpFailure(c) /\ errorInterceptors = <<>>) =>
      /\ promise[c].st = "rejected"
      /\ promise[c].error.status = LastFetch(c).num
      /\ promise[c].error.name = ClaimedKind(LastFetch(c).num)
      /\ ~promise[c].error.isNetworkError
      /\ promise[c].error.message =
           HttpMessage(LastFetch(c).num, ReasonPhrase(LastFetch(c).num))

(***************************************************************************)
(* Properties of generateKey (SpecKey)                                     *)
(***************************************************************************)
EffectiveMethod(cfg) == IF cfg.method = "" THEN "GET" ELSE cfg.method
NonEmptyBody(cfg) == cfg.data \notin {NoData, ""}
HeaderSet(cfg) ==
  {cfg.headers.properties[i] : i \in DOMAIN cfg.headers.properties}
\* the same headers up to the order in which they are listed
SameHeaders(a, b) ==
  /\ a.headers.given = b.headers.given
  /\ HeaderSet(a) = HeaderSet(b)
KeysGenerated == generated # <<NoKey, NoKey>>

\* C27: generateKey is deterministic and insensitive to header order: two
\* configurations with the same method, URL, body and set of header
\* name/value pairs get equal keys, in whatever order the headers are
\* listed; configurations that differ in method or in (non-empty) body get
\* different keys.
C27_KeyIgnoresHeaderOrder ==
  KeysGenerated =>
    LET a == keyConfigs[1]
        b == keyConfigs[2]
    IN
    /\ (/\ EffectiveMethod(a) = EffectiveMethod(b)
        /\ a.url = b.url
        /\ a.data = b.data
        /\ SameHeaders(a, b)) => generated[1] = generated[2]
    /\ EffectiveMethod(a) # EffectiveMethod(b) => generated[1] # generated[2]
    /\ (NonEmptyBody(a) /\ NonEmptyBody(b) /\ a.data # b.data) =>
         generated[1] # generated[2]

\* a step of enqueue() for request id: it was not outstanding and is now
\* waiting, executing or rejected as the queue was full
EnqueueStep(id) ==
  /\ ~Outstanding(requests[id])
  /\ \/ Outstanding(requests'[id])
     \/ /\ requests'[id] = QueueSettled("rejected", QueueFull)
        /\ lastAttempt' = "full"

\* C28: enqueue rejects with 'Request queue is full', adding nothing,
\* invoking no executor and changing no queue state, exactly when the number
\* of waiting requests has reached the maxQueueSize the queue was constructed
\* with; so the number of waiting requests never exceeds maxQueueSize.
C28_RejectsExactlyWhenFull ==
  /\ [](Len(queue) <= queueOptions.maxQueueSize)
  /\ [][\A id \in RequestIds : EnqueueStep(id) =>
          IF Len(queue) >= queueOptions.maxQueueSize
          THEN /\ requests'[id] = QueueSettled("rejected", QueueFull)
               /\ <<queue', activeRequests', timers', immediates'>>
                    = <<queue, activeRequests, timers, immediates>>
               /\ Dispatched = {}
          ELSE Outstanding(requests'[id])]_vars

\* the queue has a waiting request and a free slot, and no drain is pending:
\* nothing but a later enqueue would dispatch the waiting request
Stalled ==
  /\ queue # <<>>
  /\ activeRequests < queueConfig.maxConcurrent
  /\ Drains = 0
RejectedByClear(id) == requests[id] = QueueSettled("rejected", QueueCleared)
SettledByExecutor(id) ==
  \/ requests[id] = QueueSettled("resolved", "")
  \/ requests[id] = QueueSettled("rejected", ExecutorFailed)
\* request id waits and a request of higher priority is accepted
Overtaken(id) ==
  /\ id \in Waiting
  /\ \E other \in RequestIds \ {id} :
       /\ ~Outstanding(requests[other])
       /\ Outstanding(requests'[other])
       /\ requests'[other].priority > requests[id].priority

\* C29 as stated: under the fair scheduling of SpecQueueLive every accepted
\* request is eventually dispatched and settled by its executor, or rejected
\* by clear(); and the queue is never stalled.
C29_Original ==
  /\ []~Stalled
  /\ \A id \in RequestIds :
       /\ id \in Waiting ~> (id \in Executing \/ RejectedByClear(id))
       /\ id \in Executing ~> SettledByExecutor(id)

\* C29 amended: the same, for a request that requests of higher priority do
\* not keep overtaking: a waiting request is eventually dispatched or
\* rejected by clear() unless requests of higher priority are accepted again
\* and again while it waits; a dispatched request is always settled; the
\* queue is never stalled.
C29_LiveUnlessOvertaken ==
  /\ []~Stalled
  /\ \A id \in RequestIds :
       /\ \/ id \in Waiting ~> (id \in Executing \/ RejectedByClear(id))
          \/ []<><<Overtaken(id)>>_vars
       /\ id \in Executing ~> SettledByExecutor(id)

\* C29 witness: a request that waited behind a full concurrency limit has
\* been dispatched by the drain that followed a settlement
C29_Witness ==
  /\ queueConfig.maxConcurrent = 1
  /\ lastAttempt = "dispatch"
  /\ \E id \in RequestIds :
       /\ id \in Executing
       /\ \E other \in RequestIds : other < id /\ SettledByExecutor(other)

\* the positions of the interceptor calls in the log of the run, and the
\* call before the one at position k
CallEvents == {k \in DOMAIN chainLog : chainLog[k].ev = "call"}
PreviousCall(k) ==
  CHOOSE p \in CallEvents : p < k /\ \A o \in CallEvents : o < k => o <= p
FirstCall(k) == \A o \in CallEvents : k <= o

\* C30: within one run of a chain (request, response or error) the
\* interceptors are called in registration order; the first is given the
\* argument of the run and every other one the result its predecessor
\* returned; and an interceptor is called only after the await of its
\* predecessor's result has resumed (the log alternates call, awaited), so at
\* most one interceptor of the run is pending at any time.
C30_ChainInOrderAndAwaited ==
  /\ \A j \in CallEvents, k \in CallEvents :
       j < k => chainLog[j].reg < chainLog[k].reg
  /\ \A k \in CallEvents :
       IF FirstCall(k)
       THEN k = 1 /\ chainLog[k].value.applied = <<>>
       ELSE /\ chainLog[k].value =
                 [chainLog[PreviousCall(k)].value EXCEPT
                    !.applied = Append(@, chainLog[PreviousCall(k)].reg)]
            /\ PreviousCall(k) = k - 2
            /\ chainLog[k - 1] =
                 [chainLog[k] EXCEPT !.ev = "awaited",
                                     !.reg = chainLog[k - 2].reg,
                                     !.fn = chainLog[k - 2].fn]
  /\ chainRun.state = "awaiting" =>
       /\ chainLog[Len(chainLog)].ev = "call"
       /\ chainLog[Len(chainLog)].reg = chainRun.called.reg
  /\ chainRun.state = "returned" =>
       \/ chainLog = <<>> /\ chainRun.final.applied = <<>>
       \/ /\ chainLog # <<>>
          /\ chainLog[Len(chainLog)].ev = "awaited"
          /\ chainLog[Len(chainLog)].value = chainRun.final

\* C30 witness: a run has returned after an interceptor that returned a
\* promise and, once that was awaited, an interceptor registered after it
C30_Witness ==
  /\ chainRun.state = "returned"
  /\ \E j \in CallEvents, k \in CallEvents :
       /\ j < k
       /\ chainLog[j].fn = "async"
       /\ chainRun.final.applied = <<chainLog[j].reg, chainLog[k].reg>>

\* the functions of a chain, in order, and the chain without the registration
\* a handle was returned for
ChainFunctions(list) == [n \in DOMAIN list |-> list[n].fn]
WithoutRegistration(list, handle) ==
  SelectSeq(list, LAMBDA registration : registration.reg # handle)

\* C31: invoking the handle returned by add...Interceptor removes exactly the
\* registration that produced it (nothing when that is gone already): the
\* functions of all other registrations, other registrations of the same
\* function included, stay in the chain in their order.
C31_HandleRemovesItsRegistration ==
  [][chainInvoked' # 0 =>
       ChainFunctions(chainList') =
         ChainFunctions(WithoutRegistration(chainList, chainInvoked'))]_vars

\* the calls made to a registration in the run
CallsOf(registration) ==
  {k \in CallEvents : chainLog[k].reg = registration.reg}
StillRegistered(registration) ==
  \E n \in DOMAIN chainList : chainList[n] = registration

\* C39: a run that was suspended only on interceptors returning promises has
\* returned; handles may have been invoked meanwhile. Every interceptor that
\* was registered when the run began and has not been de-registered was
\* called exactly once in the run.
C39_OthersRunExactlyOnce ==
  (/\ chainRun.state = "returned"
   /\ \A k \in CallEvents : chainLog[k].fn = "async")
  => \A n \in DOMAIN chainStart :
       StillRegistered(chainStart[n]) =>
         Cardinality(CallsOf(chainStart[n])) = 1

\* the timer callback of executeRequest runs in this step
TimerCallback == execution.timer = "armed" /\ execution'.timer = "fired"

\* C32: once the transport call of a dispatch has settled its timer is not
\* armed any more (and none is when the dispatch is over); the timer
\* callback only ever runs while the fetch is pending; and a dispatch whose
\* transport call settled by itself is never reported as timed out.
C32_TimerClearedOnSettlement ==
  /\ [](execution.state \in {"parsing", "returned", "thrown"} =>
          execution.timer # "armed")
  /\ [](execution.responded =>
          /\ ~execution.timeoutTriggered
          /\ execution.message # "Request timeout")
  /\ [][TimerCallback =>
          execution.state = "fetching" /\ ~execution.responded]_vars

\* C32 witness: a dispatch has returned and another has thrown an HTTP error
\* with the timer cleared while time was left on it
C32_Witness ==
  /\ execution.state \in {"returned", "thrown"}
  /\ execution.responded
  /\ execution.timer = "cleared"
  /\ execution.remaining > 0
  /\ dispatches = MaxDispatches

\* the backoff sleeps of call c, and: the auth retry of its first attempt
\* took place
SleepEvents(c) == {i \in DOMAIN log[c] : log[c][i].ev = "sleep"}
AuthRetried(c) ==
  \E i \in RefreshEvents(c) :
    log[c][i].tag = "token" /\ log[c][i].attempt = 0
\* call c was rejected after a transport failure that is retry-eligible:
\* an HTTP status >= 500, a network error or a timeout
RejectedEligible(c) ==
  /\ promise[c].st = "rejected"
  /\ FetchEvents(c) # {}
  /\ \/ LastFetch(c).tag = "http" /\ LastFetch(c).num >= 500
     \/ LastFetch(c).tag = "timeout"
     \/ /\ LastFetch(c).tag \in {"TypeError", "Error"}
        /\ promise[c].error.isNetworkError

\* C33: the auth retry does not consume a backoff attempt: a call whose first
\* dispatch got 401, whose refresh succeeded and that is rejected with a
\* retry-eligible failure all the same has made every one of its R backoff
\* retries (R the effective maximum of retries).
C33_AuthRetryKeepsBackoff ==
  \A c \in Calls :
    (AuthRetried(c) /\ RejectedEligible(c)) =>
      Cardinality(SleepEvents(c)) = EffectiveRetries(c)

\* the run of refreshAuthToken recorded by event i of call c
RefreshRun(c, i) ==
  refreshes[c][Cardinality({j \in RefreshEvents(c) : j <= i})]
\* call c ended at event i: no transport call after it, rejected with the 401
Propagates401(c, i) ==
  /\ \A j \in FetchEvents(c) : j <= i
  /\ mr[c].st = "settled"
  /\ promise[c].st = "rejected"
  /\ promise[c].error.cls = "HttpServiceError"
  /\ promise[c].error.status = 401

\* C34: when a dispatch that does not skip auth gets 401 and no refresh
\* function is configured, or the refresh function throws, no observer of a
\* new token is called, no retried dispatch is made and the call rejects
\* with the 401 error; a refresh function that threw is reported to the
\* auth-error observer. With skipAuth set no refresh ever takes place.
C34_FailedRefreshPropagates ==
  \A c \in Calls :
    /\ rc[c].skipAuth => RefreshEvents(c) = {} /\ refreshes[c] = <<>>
    /\ Len(refreshes[c]) = Cardinality(RefreshEvents(c))
    /\ \A i \in DOMAIN log[c] :
         (Is401(log[c][i]) /\ log[c][i].auth = 0 /\ ~rc[c].skipAuth) =>
           /\ ~authConfig.refreshToken =>
                /\ refreshes[c] = <<>>
                /\ Propagates401(c, i)
           /\ (/\ authConfig.refreshToken
               /\ i < Len(log[c])
               /\ RefreshRun(c, i + 1).outcome = "threw") =>
                /\ log[c][i + 1].ev = "refresh"
                /\ RefreshRun(c, i + 1).called = "onAuthError"
                /\ ~RefreshRun(c, i + 1).token
                /\ Propagates401(c, i + 1)

C34_Witness ==
  \E c \in Calls :
    /\ ~rc[c].skipAuth
    /\ authConfig.refreshToken
    /\ Len(log[c]) >= 2
    /\ Is401(log[c][1])
    /\ log[c][2].ev = "refresh"
    /\ refreshes[c] = <<refreshAuthToken("threw")>>
    /\ promise[c].st = "rejected"
    /\ promise[c].error.status = 401

\* call c settled with the abort error
SettledAborted(c) ==
  /\ pc[c] = "done"
  /\ outcome[c].st = "rejected"
  /\ outcome[c].error.isAbortError

\* C35: when the caller of one of the calls that share a dispatch has
\* aborted its signal while the shared transport call was pending, that
\* transport call settles with the abort and every call that shares the
\* dispatch settles with the abort error.
C35_AnyCallerAbortsForAll ==
  \A c \in Calls, d \in abortedSignals :
    Dispatcher(c) = Dispatcher(d) =>
      /\ FetchEvents(Dispatcher(d)) # {}
           => LastFetch(Dispatcher(d)).tag = "userAbort"
      /\ pc[c] = "done" => SettledAborted(c)

\* the same for the signal of the call that dispatched
C35_DispatcherAbortsForAll ==
  \A c \in Calls, d \in abortedSignals :
    (Dispatcher(c) = d /\ Dispatcher(d) = d) =>
      /\ FetchEvents(d) # {} => LastFetch(d).tag = "userAbort"
      /\ pc[c] = "done" => SettledAborted(c)

\* two calls share a dispatch and both settled with the abort error of the
\* signal of the call that dispatched
C35_SharedAbort ==
  \E c \in Calls, d \in abortedSignals :
    /\ joinedTo[c] = d
    /\ SettledAborted(c)
    /\ SettledAborted(d)

\* C36: a call is served by the dispatch of another call only when both
\* were made with the same headers, so calls that differ in their headers
\* alone make a transport call each.
C36_DedupRespectsHeaders ==
  \A c \in Calls :
    joinedTo[c] # NoCall => rc[joinedTo[c]].headers = rc[c].headers

\* a call was served by a dispatch made with its own headers
C36_SharedSameHeaders ==
  \E c \in Calls :
    /\ joinedTo[c] # NoCall
    /\ rc[joinedTo[c]].headers = rc[c].headers
    /\ pc[c] = "done"
    /\ outcome[c].st = "fulfilled"

\* C37: a request that has been run was run by the executor that was passed
\* in the enqueue call that accepted it.
C37_RunByItsOwnExecutor ==
  \A id \in EnqueueIds :
    executorQueue.ranBy[id] # NoExecutor
      => executorQueue.ranBy[id] = executorQueue.enqueuedWith[id]

\* a request enqueued with one executor while another request was running
\* has been run, by its own executor
C37_QueuedRunByOwn ==
  \E id \in EnqueueIds, other \in EnqueueIds :
    /\ executorQueue.state[id] = "settled"
    /\ executorQueue.state[other] = "settled"
    /\ executorQueue.enqueuedWith[id] # executorQueue.enqueuedWith[other]
    /\ executorQueue.ranBy[id] = executorQueue.enqueuedWith[id]
    /\ executorQueue.ranBy[other] = executorQueue.enqueuedWith[other]

\* the RequestQueue objects made for host, the requests in flight on them
QueuesOf(host) == {k \in DOMAIN pool.objects : pool.hostOf[k] = host}
InFlight(host) ==
  {id \in EnqueueIds :
     \E k \in QueuesOf(host) : pool.objects[k].state[id] = "executing"}
\* the largest maxConcurrent a queue of host was constructed with
HostLimit(host) ==
  Max({pool.objects[k].config.maxConcurrent : k \in QueuesOf(host)})

\* C38: every getQueue call for one host returned the same RequestQueue,
\* and the requests in flight for a host are never more than the
\* maxConcurrent of its queue.
C38_OneQueuePerHost ==
  /\ \A i \in DOMAIN pool.returned, j \in DOMAIN pool.returned :
       pool.returned[i][1] = pool.returned[j][1]
         => pool.returned[i][2] = pool.returned[j][2]
  /\ \A host \in Hosts :
       QueuesOf(host) # {} => Cardinality(InFlight(host)) <= HostLimit(host)

\* the part of C38 about the admitted requests alone
C38_HostLimit ==
  \A host \in Hosts :
    QueuesOf(host) # {} => Cardinality(InFlight(host)) <= HostLimit(host)

\* as long as clearAll has not emptied the Map, C38 holds: a queue made for
\* a host is the queue of that host
C38_UntilClearAll ==
  (\A k \in DOMAIN pool.objects : pool.pools[pool.hostOf[k]] = k)
    => C38_OneQueuePerHost

\* a second getQueue call for a host returned the queue of the first, with
\* as many requests in flight as it admits and one waiting
C38_Memoized ==
  \E host \in Hosts :
    /\ Cardinality({i \in DOMAIN pool.returned :
                      pool.returned[i][1] = host}) >= 2
    /\ Cardinality(QueuesOf(host)) = 1
    /\ Cardinality(InFlight(host)) = HostLimit(host)
    /\ pool.objects[pool.pools[host]].queue # <<>>

\* every invocation of the wrapper is followed by the run of fn for it
C40_EveryInvocationRuns ==
  \A i \in Invocations :
    (throttler.invocation[i] = "scheduled")
      ~> (throttler.invocation[i] = "ran")

\* two consecutive executions of fn are at least delay ms apart
C40_Spacing ==
  throttler.lastGap # Undefined => throttler.lastGap >= throttler.delay

\* C40: every invocation of the wrapper made by Throttler.throttle is
\* followed by the run of the wrapped function for it, and two consecutive
\* executions of the wrapped function are at least delay ms apart.
C40_ThrottledRunsSpaced ==
  /\ C40_EveryInvocationRuns
  /\ []C40_Spacing

\* an invocation inside the delay window was run by the timer, delay ms
\* after the execution before it
C40_ScheduledRan ==
  \E i \in Invocations :
    /\ i > 1
    /\ throttler.invocation[i] = "ran"
    /\ throttler.lastGap = throttler.delay
    /\ throttler.sinceLastExecution = 0
    /\ throttler.executions = i

====
